---- MODULE Spec2Model ----
(***************************************************************************)
(* A model of the oxen static site generator: the discovery phase that     *)
(* builds the identifier and tag indexes (generator/utils.go), the page    *)
(* rendering phase that rewrites identifier links and applies the output   *)
(* cache (generator/phase2.go), the pipeline that runs them in order       *)
(* (generator/types.go), and the watch loop of main.go.                    *)
(*                                                                         *)
(* Paths are sequences of components ("sub/b.org" is <<"sub", "b.org">>),  *)
(* the directory "." is the empty sequence.  Times are ticks of a logical  *)
(* clock.  A sync.Map is a function whose domain is its key set.  A link   *)
(* is a record of scheme, path and fragment; the index is keyed by the     *)
(* identifier exactly as an identifier link names it.                      *)
(***************************************************************************)
EXTENDS Integers, Sequences, FiniteSets, TLC

VARIABLES
    \* ---- the file system -------------------------------------------------
    clock,          \* current time
    src,            \* source tree: doc path -> [state, mtime, headings, links];
                    \* state is "ok", "empty" (no bytes), "unreadable" (ReadFile
                    \* fails) or "unwritable" (its page cannot be produced)
    out,            \* destination tree: doc path -> [exists, mtime, links]
    \* ---- one build (Pipeline.Execute) ------------------------------------
    pc,             \* "idle", "discover", "render", "tags", "index", "done"
    ctx,            \* BuildContext: [ForceRebuild, TmplModTime]
    Files,          \* ProcessedFiles.Files: doc path -> FileInfo
    UuidMap,        \* ProcessedFiles.UuidMap
    TagMap,         \* ProcessedFiles.TagMap
    wpc,            \* discovery goroutine of each file: "start","load","store","done"
    wtag,           \* discovery goroutine: index in the loop over fi.Tags
    existing,       \* discovery goroutine: the slice LoadOrStore returned
    filesWithUUIDs, \* atomic counter of FindAndProcessOrgFiles
    snap,           \* keywords/replacements taken by GenerateHtmlPages
    rstatus,        \* rendering goroutine of each file
    filesGenerated, \* atomic counter of GenerateHtmlPages
    errors,         \* atomic counter of GenerateHtmlPages
    result,         \* Pipeline.result
    \* ---- history ---------------------------------------------------------
    builds,         \* number of completed builds
    edits,          \* number of source edits
    dirty,          \* a source or template changed since the last build ended
    prev,           \* [ForceRebuild, TmplModTime] of the last completed build
    stored,         \* identifiers stored in UuidMap during this build
    lateRead,       \* the index was read while a discovery goroutine was running
    \* ---- one call of replaceUUIDLinks ------------------------------------
    lpc,            \* "call", "done"
    lcur,           \* currentFilePath: the document being rendered
    ltgt,           \* the path the index gives for the linked identifier
    replaced,       \* the data replaceUUIDLinks returns
    \* ---- watch mode (runWatchMode) ---------------------------------------
    events,         \* watcher.Events: "src" or "dest" per pending event
    hpc,            \* event goroutine: "select", "check", "set", "send"
    mpc,            \* main loop: "recv","clear","sleep","drain","call","build"
    hasPendingRebuild,
    rebuildChan,    \* number of values in the channel of capacity RebuildChanCap
    unserved,       \* a source change happened and no rebuild started since
    running,        \* number of calls of buildSite that have not returned
    \* ---- one call of a pure function -------------------------------------
    cpc,            \* "call", "done"
    arg,            \* the argument(s) of the call
    ret,            \* the value returned
    \* ---- the rendering phase of main.go (phase3) -------------------------
    gpc,            \* phase3: "range", "workers", "done"
    gstatus,        \* per document: "none" (not in state.orgFiles), "queued",
                    \* "sentinel", "skipped", "generated", "failed"
    stats,          \* state.stats: the counters of buildState
    \* ---- the preview server (server/server.go) --------------------------
    reloadChan,     \* number of values in s.reloadChan, of capacity ReloadChanCap
    clients,        \* s.clients: the keys of the sync.Map
    conn,           \* per browser: "none", "open" (HandleSSE entered),
                    \* "registered" (stored in s.clients), "gone" (it went away)
    bpc,            \* startReloadBroadcaster: "recv", "range"
    toVisit,        \* the clients the running Range has still to call back for
    delivered,      \* the clients the running Range wrote "data: reload" to
    notified,       \* NotifyReload was called and no signal was received since
    owed,           \* registered when a signal was received, not yet written to
    \* ---- the lookup-id command (lookupCmd of main.go) --------------------
    lkpc,           \* "walk", "process", "print", "exit"
    workers,        \* the --workers flag
    nFiles,         \* number of .org files under the directory, numbered from 1
                    \* in the order the walk sends them
    holder,         \* the file that declares the ID looked up, 0 if none does
    sent,           \* number of files the walk has sent to state.fileChan
    fileChan,       \* number of files in state.fileChan
    holding,        \* per worker: "none", or the file it took and is processing:
                    \* "holder" (the one that declares the ID) or "other"
    found,          \* state.uuidMap holds "id:" + the ID looked up
    printed,        \* what the command printed: "", "found", "not found"
    \* ---- tag pages and index page (generator/phase3.go) ------------------
    tagOut,         \* tag -> the page tag-<tag>.html: [exists, mtime, files]
    indexOut,       \* index.html: [exists, mtime, recent, tags]
    tstatus,        \* goroutine of each tag: "pending", "skipped", "generated"
    istatus,        \* GenerateIndexPage: "pending", "skipped", "generated"
    tagPagesGenerated,  \* atomic counter of GenerateTagPages
    \* ---- file enumeration (collectOrgFiles, walkDirectoryConcurrent) -----
    tree,           \* the directory tree: a set of [path, dir] entries below the root
    nwalkers,       \* the worker count given to walkDirectoryConcurrent
    wkpc,           \* walkDirectoryConcurrent: "entries", "close", "wait", "done"
    entriesLeft,    \* the root entries its loop has still to handle
    dirChan,        \* the directories in dirChan
    wstate,         \* per worker: "idle", "walking", "exited"
    wleft,          \* per worker: the entries its WalkDir has still to visit
    sentFiles,      \* Path of the FileInfo values sent to state.fileChan -> count
    collected       \* collectOrgFiles: whether it was called, and Path -> count

buildVars == <<clock, src, out, pc, ctx, Files, UuidMap, TagMap, wpc, wtag,
               existing, filesWithUUIDs, snap, rstatus, filesGenerated,
               errors, result, builds, edits, dirty, prev, stored, lateRead>>

linkVars == <<lpc, lcur, ltgt, replaced>>

watchVars == <<events, hpc, mpc, hasPendingRebuild, rebuildChan, unserved, running>>

callVars == <<cpc, arg, ret>>

mainVars == <<gpc, gstatus, stats>>

serverVars == <<reloadChan, clients, conn, bpc, toVisit, delivered, notified, owed>>

lookupVars == <<lkpc, workers, nFiles, holder, sent, fileChan, holding, found, printed>>

aggVars == <<tagOut, indexOut, tstatus, istatus, tagPagesGenerated>>

walkVars == <<tree, nwalkers, wkpc, entriesLeft, dirChan, wstate, wleft,
              sentFiles, collected>>

\* the groups of the smaller components
otherVars == <<serverVars, lookupVars, aggVars, walkVars>>

vars == <<buildVars, linkVars, watchVars, callVars, mainVars, otherVars>>

nonBuildVars == <<linkVars, watchVars, callVars, mainVars, otherVars>>

nonLinkVars == <<buildVars, watchVars, callVars, mainVars, otherVars>>

nonWatchVars == <<buildVars, linkVars, callVars, mainVars, otherVars>>

nonCallVars == <<buildVars, linkVars, watchVars, mainVars, otherVars>>

nonMainVars == <<buildVars, linkVars, watchVars, callVars, otherVars>>

nonServerVars == <<buildVars, linkVars, watchVars, callVars, mainVars,
                   lookupVars, aggVars, walkVars>>

nonLookupVars == <<buildVars, linkVars, watchVars, callVars, mainVars,
                   serverVars, aggVars, walkVars>>

\* what the tag page and index page phases leave alone outside the build
nonAggVars == <<linkVars, watchVars, callVars, mainVars, serverVars,
                lookupVars, walkVars>>

nonWalkVars == <<buildVars, linkVars, watchVars, callVars, mainVars,
                 serverVars, lookupVars, aggVars>>

----------------------------------------------------------------------------
(* Bounds *)

MaxTime == 1
MaxBuilds == 2
MaxEdits == 1
MaxDepth == 2
MaxQueue == 2
MaxMutations == 1
MaxCount == 1
MaxFaults == 1
MaxClients == 2
MaxWorkers == 2
MaxExtra == 1
MaxLines == 3       \* lines of a document given to the metadata extractors
MaxOver == 2        \* bytes by which a text may exceed the preview length
MaxFiles == 5       \* files given to filesToSpans
MaxSpans == 6       \* spans asked of filesToSpans
MaxPieces == 3      \* pieces a text given to extractUUIDs is made of

----------------------------------------------------------------------------
(* The source tree *)

DocA == <<"a.org">>
DocB == <<"sub", "b.org">>
DocC == <<"sub", "deep", "c.org">>
Preamble == <<"sitemap-preamble.org">>

Docs == {DocA, DocB, DocC, Preamble}

\* identifier links authored in each document; "u9" is declared nowhere
DocLinks(d) ==
    IF d = DocA THEN <<"u1", "u9">>
    ELSE IF d = DocB THEN <<"u2">>
    ELSE IF d = DocC THEN <<"u1">>
    ELSE <<>>

\* headlines in document order: tags and the ID values of the property drawer
InitHeadings(d) ==
    IF d = DocA THEN << [tags |-> <<"emacs">>, ids |-> <<"u2">>] >>
    ELSE IF d = DocB THEN << [tags |-> <<"emacs">>, ids |-> <<>>],
                             [tags |-> <<>>, ids |-> <<"u1">>] >>
    ELSE IF d = DocC THEN << [tags |-> <<>>, ids |-> <<>>] >>
    ELSE <<>>

Ids == {"u1", "u2", "u9"}

\* the identifier the user moves between headlines
MovedIds == {"u1"}

----------------------------------------------------------------------------
(* Strings, paths and maps *)

Range(s) == {s[i] : i \in 1..Len(s)}

HasSuffix(s, suffix) ==
    /\ Len(s) >= Len(suffix)
    /\ SubSeq(s, Len(s) - Len(suffix) + 1, Len(s)) = suffix

TrimSuffix(s, suffix) ==
    IF HasSuffix(s, suffix) THEN SubSeq(s, 1, Len(s) - Len(suffix)) ELSE s

\* filepath.Dir: all components but the last; "." is <<>>
Dir(p) == SubSeq(p, 1, Len(p) - 1)

RECURSIVE CommonPrefixLen(_, _)
CommonPrefixLen(a, b) ==
    IF a # <<>> /\ b # <<>> /\ Head(a) = Head(b)
    THEN 1 + CommonPrefixLen(Tail(a), Tail(b))
    ELSE 0

\* filepath.Rel(basepath, targpath) on clean relative paths: drop the shared
\* leading components, climb out of what is left of basepath, descend into
\* what is left of targpath
Rel(basepath, targpath) ==
    LET k == CommonPrefixLen(basepath, targpath)
    IN  [i \in 1..(Len(basepath) - k) |-> ".."]
            \o SubSeq(targpath, k + 1, Len(targpath))

\* sync.Map.Store
\* a store that keeps the value of a key that is already present
MapStoreIfAbsent(m, k, v) ==
    [x \in DOMAIN m \cup {k} |-> IF x \in DOMAIN m THEN m[x] ELSE v]

MapStore(m, k, v) == [x \in DOMAIN m \cup {k} |-> IF x = k THEN v ELSE m[x]]

\* time.Time.After
After(t, u) == t > u

----------------------------------------------------------------------------
(* generator/types.go *)

\* GenerationResult{}: every counter 0, startTime the zero time
ZeroResult ==
    [TotalFilesScanned |-> 0, FilesWithUUIDs |-> 0, FilesGenerated |-> 0,
     FilesSkipped |-> 0, TagPagesGenerated |-> 0, StaticFilesCopied |-> 0,
     Errors |-> 0, startTime |-> 0]

\* Add forgetting the errors of its argument
AddDroppingErrors(r, other) ==
    [TotalFilesScanned |-> r.TotalFilesScanned + other.TotalFilesScanned,
     FilesWithUUIDs    |-> r.FilesWithUUIDs + other.FilesWithUUIDs,
     FilesGenerated    |-> r.FilesGenerated + other.FilesGenerated,
     FilesSkipped      |-> r.FilesSkipped + other.FilesSkipped,
     TagPagesGenerated |-> r.TagPagesGenerated + other.TagPagesGenerated,
     StaticFilesCopied |-> r.StaticFilesCopied + other.StaticFilesCopied,
     Errors            |-> r.Errors,
     startTime         |-> 0]

\* Add taking the zero result for an empty argument and returning the
\* receiver as it is
AddShortcut(r, other) ==
    IF other.TotalFilesScanned + other.FilesWithUUIDs + other.FilesGenerated
           + other.FilesSkipped + other.TagPagesGenerated
           + other.StaticFilesCopied + other.Errors = 0
    THEN r
    ELSE [TotalFilesScanned |-> r.TotalFilesScanned + other.TotalFilesScanned,
          FilesWithUUIDs    |-> r.FilesWithUUIDs + other.FilesWithUUIDs,
          FilesGenerated    |-> r.FilesGenerated + other.FilesGenerated,
          FilesSkipped      |-> r.FilesSkipped + other.FilesSkipped,
          TagPagesGenerated |-> r.TagPagesGenerated + other.TagPagesGenerated,
          StaticFilesCopied |-> r.StaticFilesCopied + other.StaticFilesCopied,
          Errors            |-> r.Errors + other.Errors,
          startTime         |-> 0]

\* the composite literal Add returns names the seven counters and leaves
\* startTime at its zero value
Add(r, other) ==
    [TotalFilesScanned |-> r.TotalFilesScanned + other.TotalFilesScanned,
     FilesWithUUIDs    |-> r.FilesWithUUIDs + other.FilesWithUUIDs,
     FilesGenerated    |-> r.FilesGenerated + other.FilesGenerated,
     FilesSkipped      |-> r.FilesSkipped + other.FilesSkipped,
     TagPagesGenerated |-> r.TagPagesGenerated + other.TagPagesGenerated,
     StaticFilesCopied |-> r.StaticFilesCopied + other.StaticFilesCopied,
     Errors            |-> r.Errors + other.Errors,
     startTime         |-> 0]

----------------------------------------------------------------------------
(* Discovery: generator/utils.go *)

\* the tags of the first headline that has any
RECURSIVE extractTagsFromAST(_)
extractTagsFromAST(headlines) ==
    IF headlines = <<>> THEN <<>>
    ELSE IF Len(Head(headlines).tags) > 0 THEN Head(headlines).tags
    ELSE extractTagsFromAST(Tail(headlines))

\* the ID property values of one drawer that are not yet in uuids
RECURSIVE AppendUnseen(_, _)
AppendUnseen(uuids, props) ==
    IF props = <<>> THEN uuids
    ELSE IF Head(props) \in Range(uuids) THEN AppendUnseen(uuids, Tail(props))
    ELSE AppendUnseen(Append(uuids, Head(props)), Tail(props))

RECURSIVE ExtractFrom(_, _)
ExtractFrom(uuids, headlines) ==
    IF headlines = <<>> THEN uuids
    ELSE ExtractFrom(AppendUnseen(uuids, Head(headlines).ids), Tail(headlines))

extractUUIDsFromAST(headlines) == ExtractFrom(<<>>, headlines)

\* the value processFile stores in UuidMap for an identifier of filePath
IndexValue(filePath) == [FilePath |-> filePath]

RECURSIVE StoreAll(_, _, _)
StoreAll(m, uuids, filePath) ==
    IF uuids = <<>> THEN m
    ELSE StoreAll(MapStore(m, Head(uuids), IndexValue(filePath)), Tail(uuids), filePath)

\* collectOrgFiles
collectOrgFiles ==
    [d \in Docs |-> [Path |-> d, ModTime |-> src[d].mtime,
                     Tags |-> <<>>, UUIDs |-> <<>>]]

\* buildSite / Pipeline.Execute starts: FindAndProcessOrgFiles walks the tree
\* and dispatches one goroutine per file
StartBuild(force, tmpl) ==
    /\ pc = "idle"
    /\ builds < MaxBuilds
    /\ pc' = "discover"
    /\ ctx' = [ForceRebuild |-> force, TmplModTime |-> tmpl]
    /\ Files' = collectOrgFiles
    /\ UuidMap' = <<>>
    /\ TagMap' = <<>>
    /\ wpc' = [d \in Docs |-> "start"]
    /\ wtag' = [d \in Docs |-> 1]
    /\ existing' = [d \in Docs |-> <<>>]
    /\ filesWithUUIDs' = 0
    /\ snap' = [taken |-> FALSE, map |-> <<>>]
    /\ rstatus' = [d \in Docs |-> "pending"]
    /\ filesGenerated' = 0
    /\ errors' = 0
    /\ result' = ZeroResult
    /\ stored' = {}
    /\ lateRead' = FALSE
    /\ dirty' = (dirty \/ (builds > 0 /\ tmpl # prev.TmplModTime))
    /\ UNCHANGED <<clock, src, out, builds, edits, prev>>
    /\ UNCHANGED nonBuildVars

\* the goroutine of file d: processFile, files[idx] = *fi, the UUID counter
ProcessFile(d) ==
    /\ pc # "idle"
    /\ wpc[d] = "start"
    /\ LET state == src[d].state
           fi == [Path |-> d, ModTime |-> src[d].mtime,
                  Tags |-> extractTagsFromAST(src[d].headings),
                  UUIDs |-> extractUUIDsFromAST(src[d].headings)]
       IN  IF state \in {"unreadable", "empty"}
           THEN \* read error (err != nil) or empty file (fi == nil): return
                /\ wpc' = [wpc EXCEPT ![d] = "done"]
                /\ UNCHANGED <<Files, UuidMap, filesWithUUIDs, stored>>
           ELSE /\ UuidMap' = StoreAll(UuidMap, fi.UUIDs, d)
                /\ stored' = stored \cup Range(fi.UUIDs)
                /\ Files' = [Files EXCEPT ![d] = fi]
                /\ filesWithUUIDs' =
                       IF Len(fi.UUIDs) > 0 THEN filesWithUUIDs + 1
                       ELSE filesWithUUIDs
                /\ wpc' = [wpc EXCEPT ![d] =
                               IF fi.Tags = <<>> THEN "done" ELSE "load"]
    /\ UNCHANGED <<clock, src, out, pc, ctx, TagMap, wtag, existing, snap,
                   rstatus, filesGenerated, errors, result, builds, edits,
                   dirty, prev, lateRead>>
    /\ UNCHANGED nonBuildVars

\* existing, _ := procFiles.TagMap.LoadOrStore(tag, []FileInfo{})
TagLoadOrStore(d) ==
    /\ pc # "idle"
    /\ wpc[d] = "load"
    /\ LET tag == Files[d].Tags[wtag[d]]
       IN  IF tag \in DOMAIN TagMap
           THEN /\ existing' = [existing EXCEPT ![d] = TagMap[tag]]
                /\ TagMap' = TagMap
           ELSE /\ existing' = [existing EXCEPT ![d] = <<>>]
                /\ TagMap' = MapStore(TagMap, tag, <<>>)
    /\ wpc' = [wpc EXCEPT ![d] = "store"]
    /\ UNCHANGED <<clock, src, out, pc, ctx, Files, UuidMap, wtag,
                   filesWithUUIDs, snap, rstatus, filesGenerated, errors,
                   result, builds, edits, dirty, prev, stored, lateRead>>
    /\ UNCHANGED nonBuildVars

\* procFiles.TagMap.Store(tag, append(existingSlice, *fi))
TagStore(d) ==
    /\ pc # "idle"
    /\ wpc[d] = "store"
    /\ LET tag == Files[d].Tags[wtag[d]]
       IN  TagMap' = MapStore(TagMap, tag, Append(existing[d], d))
    /\ existing' = [existing EXCEPT ![d] = <<>>]
    /\ wtag' = [wtag EXCEPT ![d] = wtag[d] + 1]
    /\ wpc' = [wpc EXCEPT ![d] =
                   IF wtag[d] < Len(Files[d].Tags) THEN "load" ELSE "done"]
    /\ UNCHANGED <<clock, src, out, pc, ctx, Files, UuidMap,
                   filesWithUUIDs, snap, rstatus, filesGenerated, errors,
                   result, builds, edits, dirty, prev, stored, lateRead>>
    /\ UNCHANGED nonBuildVars

\* FindAndProcessOrgFiles without its wg.Wait(): it returns at once
ReturnsWithoutWaiting == TRUE

\* wg.Wait() of FindAndProcessOrgFiles returns
WgWaitReturns == \A d \in Docs : wpc[d] = "done"

\* FindAndProcessOrgFiles returns and Pipeline.Execute adds its result
FindReturn ==
    /\ pc = "discover"
    /\ WgWaitReturns
    /\ pc' = "render"
    /\ result' = Add(result, [ZeroResult EXCEPT
                                 !.TotalFilesScanned = Cardinality(Docs),
                                 !.FilesWithUUIDs = filesWithUUIDs])
    /\ UNCHANGED <<clock, src, out, ctx, Files, UuidMap, TagMap, wpc, wtag,
                   existing, filesWithUUIDs, snap, rstatus, filesGenerated,
                   errors, builds, edits, dirty, prev, stored, lateRead>>
    /\ UNCHANGED nonBuildVars

----------------------------------------------------------------------------
(* Rendering: generator/phase2.go *)

\* an identifier link as written in a source document
AuthoredLink(u) == [scheme |-> "id", path |-> <<u>>, anchor |-> ""]

\* fmt.Sprintf("file:%s.html", strings.TrimSuffix(relPath, ".org"))
Replacement(relPath) ==
    [scheme |-> "file",
     path |-> [relPath EXCEPT ![Len(relPath)] = TrimSuffix(@, ".org") \o ".html"],
     anchor |-> ""]

\* the loop body taking the path relative to the current file itself rather
\* than to its directory
ReplaceTermFromFile(keyword, targetPathMap, currentFilePath) ==
    Replacement(Rel(currentFilePath, targetPathMap[keyword].FilePath))

\* the loop body of replaceUUIDLinks for one matched keyword
ReplaceTerm(keyword, targetPathMap, currentFilePath) ==
    LET currentDir == Dir(currentFilePath)
        targetPath == targetPathMap[keyword].FilePath
        relPath == Rel(currentDir, targetPath)
    IN  Replacement(relPath)

\* replaceUUIDLinks rewriting every identifier link, a missing keyword
\* reading the empty target path of a Go map miss
ReplaceUnknownToo(data, targetPathMap, currentFilePath) ==
    [i \in 1..Len(data) |->
        IF data[i].scheme # "id" THEN data[i]
        ELSE IF data[i].path[1] \in DOMAIN targetPathMap
        THEN ReplaceTerm(data[i].path[1], targetPathMap, currentFilePath)
        ELSE Replacement(Rel(Dir(currentFilePath), <<"">>))]

replaceUUIDLinks(data, targetPathMap, currentFilePath) ==
    IF DOMAIN targetPathMap = {} THEN data
    ELSE [i \in 1..Len(data) |->
             IF data[i].scheme = "id" /\ data[i].path[1] \in DOMAIN targetPathMap
             THEN ReplaceTerm(data[i].path[1], targetPathMap, currentFilePath)
             ELSE data[i]]

\* the cache check with strict comparisons: equal times count as stale
CacheValidStrict(fi, c, html) ==
    /\ ~c.ForceRebuild
    /\ html.exists
    /\ After(html.mtime, fi.ModTime)
    /\ After(html.mtime, c.TmplModTime)

\* the cache check of generateHTML
CacheValid(fi, c, html) ==
    /\ ~c.ForceRebuild
    /\ html.exists
    /\ ~After(fi.ModTime, html.mtime)
    /\ ~After(c.TmplModTime, html.mtime)

\* procFiles.UuidMap.Range(...) at the start of GenerateHtmlPages
RangeUuidMap ==
    /\ pc = "render"
    /\ ~snap.taken
    /\ snap' = [taken |-> TRUE, map |-> UuidMap]
    /\ lateRead' = (\E d \in Docs : wpc[d] # "done")
    /\ UNCHANGED <<clock, src, out, pc, ctx, Files, UuidMap, TagMap, wpc, wtag,
                   existing, filesWithUUIDs, rstatus, filesGenerated, errors,
                   result, builds, edits, dirty, prev, stored>>
    /\ UNCHANGED nonBuildVars

\* generateHTML without its sentinel test
NeverSentinel(fi) == FALSE

\* if fi.Path == "sitemap-preamble.org": the first test of generateHTML
IsSentinel(fi) == fi.Path = Preamble

\* the goroutine of file d in GenerateHtmlPages: generateHTML and the counters
GenerateHTML(d) ==
    /\ pc = "render"
    /\ snap.taken
    /\ rstatus[d] = "pending"
    /\ LET fi == Files[d]
       IN  IF IsSentinel(fi)
           THEN /\ rstatus' = [rstatus EXCEPT ![d] = "sentinel"]
                /\ filesGenerated' = filesGenerated + 1
                /\ UNCHANGED <<out, errors>>
           ELSE IF CacheValid(fi, ctx, out[d])
           THEN /\ rstatus' = [rstatus EXCEPT ![d] = "cached"]
                /\ filesGenerated' = filesGenerated + 1
                /\ UNCHANGED <<out, errors>>
           ELSE IF src[d].state \in {"unreadable", "unwritable"}
           THEN \* ReadFile fails, or a later step up to WriteFile does
                /\ rstatus' = [rstatus EXCEPT ![d] = "error"]
                /\ errors' = errors + 1
                /\ UNCHANGED <<out, filesGenerated>>
           ELSE /\ out' = [out EXCEPT ![d] =
                              [exists |-> TRUE, mtime |-> clock,
                               links |-> replaceUUIDLinks(src[d].links, snap.map, fi.Path)]]
                /\ rstatus' = [rstatus EXCEPT ![d] = "generated"]
                /\ filesGenerated' = filesGenerated + 1
                /\ UNCHANGED errors
    /\ UNCHANGED <<clock, src, pc, ctx, Files, UuidMap, TagMap, wpc, wtag,
                   existing, filesWithUUIDs, snap, result, builds, edits,
                   dirty, prev, stored, lateRead>>
    /\ UNCHANGED nonBuildVars

\* wg.Wait() of GenerateHtmlPages returns, the result is added and the build
\* ends: procFiles and the counters go out of scope
RenderReturn ==
    /\ pc = "render"
    /\ snap.taken
    /\ \A d \in Docs : rstatus[d] # "pending"
    /\ result' = Add(result, [ZeroResult EXCEPT
                                 !.FilesGenerated = filesGenerated,
                                 !.Errors = errors])
    /\ pc' = "idle"
    /\ builds' = builds + 1
    /\ dirty' = FALSE
    /\ prev' = ctx
    /\ Files' = [d \in Docs |-> [Path |-> d, ModTime |-> 0, Tags |-> <<>>, UUIDs |-> <<>>]]
    /\ UuidMap' = <<>>
    /\ TagMap' = <<>>
    /\ snap' = [taken |-> FALSE, map |-> <<>>]
    /\ rstatus' = [d \in Docs |-> "pending"]
    /\ filesWithUUIDs' = 0
    /\ filesGenerated' = 0
    /\ errors' = 0
    /\ stored' = {}
    /\ UNCHANGED <<clock, src, out, ctx, wpc, wtag, existing, edits, lateRead>>
    /\ UNCHANGED nonBuildVars

----------------------------------------------------------------------------
(* The environment between builds *)

Tick ==
    /\ pc = "idle"
    /\ clock < MaxTime
    /\ clock' = clock + 1
    /\ UNCHANGED <<src, out, pc, ctx, Files, UuidMap, TagMap, wpc, wtag,
                   existing, filesWithUUIDs, snap, rstatus, filesGenerated,
                   errors, result, builds, edits, dirty, prev, stored, lateRead>>
    /\ UNCHANGED nonBuildVars

RemoveId(ids, u) == SelectSeq(ids, LAMBDA x : x # u)

\* the user moves the ID property u to headline k2 of document d2
MoveId(u, d2, k2) ==
    /\ pc = "idle"
    /\ edits < MaxEdits
    /\ k2 \in 1..Len(src[d2].headings)
    /\ u \notin Range(src[d2].headings[k2].ids)
    /\ \E d1 \in Docs : \E k1 \in 1..Len(src[d1].headings) :
           u \in Range(src[d1].headings[k1].ids)
    /\ src' = [d \in Docs |->
                 LET h == src[d].headings
                     moved == [k \in 1..Len(h) |->
                                  [h[k] EXCEPT !.ids =
                                      IF d = d2 /\ k = k2
                                      THEN Append(RemoveId(@, u), u)
                                      ELSE RemoveId(@, u)]]
                 IN  IF moved = h THEN src[d]
                     ELSE [src[d] EXCEPT !.headings = moved, !.mtime = clock]]
    /\ edits' = edits + 1
    /\ dirty' = TRUE
    /\ UNCHANGED <<clock, out, pc, ctx, Files, UuidMap, TagMap, wpc, wtag,
                   existing, filesWithUUIDs, snap, rstatus, filesGenerated,
                   errors, result, builds, prev, stored, lateRead>>
    /\ UNCHANGED nonBuildVars

----------------------------------------------------------------------------

BuildInit ==
    /\ clock = 0
    /\ src = [d \in Docs |->
                 [state |-> "ok", mtime |-> 0, headings |-> InitHeadings(d),
                  links |-> [i \in 1..Len(DocLinks(d)) |-> AuthoredLink(DocLinks(d)[i])]]]
    /\ out = [d \in Docs |-> [exists |-> FALSE, mtime |-> 0, links |-> <<>>]]
    /\ pc = "idle"
    /\ ctx = [ForceRebuild |-> FALSE, TmplModTime |-> 0]
    /\ Files = [d \in Docs |-> [Path |-> d, ModTime |-> 0, Tags |-> <<>>, UUIDs |-> <<>>]]
    /\ UuidMap = <<>>
    /\ TagMap = <<>>
    /\ wpc = [d \in Docs |-> "done"]
    /\ wtag = [d \in Docs |-> 1]
    /\ existing = [d \in Docs |-> <<>>]
    /\ filesWithUUIDs = 0
    /\ snap = [taken |-> FALSE, map |-> <<>>]
    /\ rstatus = [d \in Docs |-> "pending"]
    /\ filesGenerated = 0
    /\ errors = 0
    /\ result = ZeroResult
    /\ builds = 0
    /\ edits = 0
    /\ dirty = FALSE
    /\ prev = [ForceRebuild |-> FALSE, TmplModTime |-> 0]
    /\ stored = {}
    /\ lateRead = FALSE

LinkIdle ==
    /\ lpc = "done"
    /\ lcur = DocA
    /\ ltgt = DocA
    /\ replaced = <<>>

WatchIdle ==
    /\ events = <<>>
    /\ hpc = "select"
    /\ mpc = "recv"
    /\ hasPendingRebuild = FALSE
    /\ rebuildChan = 0
    /\ unserved = FALSE
    /\ running = 0

CallIdle ==
    /\ cpc = "done"
    /\ arg = <<>>
    /\ ret = <<>>

MainIdle ==
    /\ gpc = "done"
    /\ gstatus = [d \in Docs |-> "none"]
    /\ stats = [filesGenerated |-> 0, filesSkipped |-> 0, errors |-> 0]

\* NewServer: no client, nothing in reloadChan
ServerIdle ==
    /\ reloadChan = 0
    /\ clients = {}
    /\ conn = [c \in 1..MaxClients |-> "none"]
    /\ bpc = "recv"
    /\ toVisit = {}
    /\ delivered = {}
    /\ notified = FALSE
    /\ owed = {}

\* lookup-id is not running
LookupIdle ==
    /\ lkpc = "exit"
    /\ workers = 1
    /\ nFiles = 0
    /\ holder = 0
    /\ sent = 0
    /\ fileChan = 0
    /\ holding = <<>>
    /\ found = FALSE
    /\ printed = ""

\* no tag page and no index page has been produced
AggIdle ==
    /\ tagOut = <<>>
    /\ indexOut = [exists |-> FALSE, mtime |-> 0, recent |-> {}, tags |-> <<>>]
    /\ tstatus = <<>>
    /\ istatus = "pending"
    /\ tagPagesGenerated = 0

\* no enumeration is running
WalkIdle ==
    /\ tree = {}
    /\ nwalkers = 1
    /\ wkpc = "done"
    /\ entriesLeft = <<>>
    /\ dirChan = <<>>
    /\ wstate = <<>>
    /\ wleft = <<>>
    /\ sentFiles = <<>>
    /\ collected = [called |-> FALSE, files |-> <<>>]

OtherIdle == ServerIdle /\ LookupIdle /\ AggIdle /\ WalkIdle

Init == BuildInit /\ LinkIdle /\ WatchIdle /\ CallIdle /\ MainIdle /\ OtherIdle

Next ==
    \/ \E force \in BOOLEAN, tmpl \in {0, clock} : StartBuild(force, tmpl)
    \/ \E d \in Docs : ProcessFile(d)
    \/ \E d \in Docs : TagLoadOrStore(d)
    \/ \E d \in Docs : TagStore(d)
    \/ FindReturn
    \/ RangeUuidMap
    \/ \E d \in Docs : GenerateHTML(d)
    \/ RenderReturn
    \/ Tick
    \/ \E u \in MovedIds, d2 \in Docs :
           \E k2 \in 1..Len(src[d2].headings) : MoveId(u, d2, k2)

Spec == Init /\ [][Next]_vars

----------------------------------------------------------------------------
(* Properties of the build pipeline *)

\* the documents that declare identifier u, with the ordinal of the headline
Declares(d, k, u) ==
    /\ src[d].state = "ok"
    /\ k \in 1..Len(src[d].headings)
    /\ u \in Range(src[d].headings[k].ids)

AllRendered == pc = "render" /\ snap.taken /\ \A d \in Docs : rstatus[d] # "pending"

\* where a browser lands following the relative reference rel from directory dir
RECURSIVE Resolve(_, _)
Resolve(dir, rel) ==
    IF rel = <<>> THEN dir
    ELSE IF Head(rel) = ".." /\ dir # <<>> /\ dir[Len(dir)] # ".."
    THEN Resolve(Dir(dir), Tail(rel))
    ELSE Resolve(Append(dir, Head(rel)), Tail(rel))

\* the output path of document p
HtmlPath(p) == [p EXCEPT ![Len(p)] = TrimSuffix(@, ".org") \o ".html"]

\* C1: no render worker reads the identifier index before every discovery
\* worker has finished: rendering starts only when all of them are done, the
\* snapshot rendering works from was taken with none of them running, and it
\* holds every identifier discovery stored.
C1_DiscoveryBarrier ==
    /\ pc = "render" => \A d \in Docs : wpc[d] = "done"
    /\ snap.taken => ~lateRead /\ stored \subseteq DOMAIN snap.map

C1_Witness ==
    /\ snap.taken
    /\ stored = {"u1", "u2"}
    /\ \E d \in Docs : rstatus[d] = "generated"

\* C2: once discovery has returned, the tag index lists under tag t every
\* non-empty document whose first headline carries t, whatever the
\* interleaving of the discovery workers.
C2_NoRegistrationLost ==
    pc = "render" =>
        \A d \in Docs :
            (src[d].state = "ok" /\ src[d].headings # <<>>) =>
                \A t \in Range(src[d].headings[1].tags) :
                    t \in DOMAIN TagMap /\ d \in Range(TagMap[t])

\* C4: a second run with forceRebuild false, after a first such run and with
\* no source or template change in between, reports filesGenerated = 0 and
\* filesSkipped = the number of documents.
C4_SecondRunSkipsAll ==
    [][(AllRendered /\ pc' = "idle" /\ builds >= 1 /\ ~dirty
            /\ ~ctx.ForceRebuild /\ ~prev.ForceRebuild)
        => (result'.FilesGenerated = 0
            /\ result'.FilesSkipped = Cardinality(Docs))]_vars

\* C5: after discovery, looking up an identifier declared on headline k of
\* document d gives the location {d, k}.
C5_LookupGivesLocation ==
    pc = "render" =>
        \A d \in Docs : \A k \in 1..Len(src[d].headings) :
            \A u \in Range(src[d].headings[k].ids) :
                Declares(d, k, u) =>
                    /\ u \in DOMAIN UuidMap
                    /\ UuidMap[u] = [FilePath |-> d, HeaderIndex |-> k]

\* C7: every link rendering has rewritten ends with "#headline-N", N being
\* the ordinal of the headline that declares the identifier.
C7_RewrittenLinkHasAnchor ==
    pc = "render" =>
        \A d \in Docs : rstatus[d] = "generated" =>
            \A i \in 1..Len(out[d].links) :
                out[d].links[i].scheme = "file" =>
                    \E d2 \in Docs : \E k \in 1..Len(src[d2].headings) :
                        /\ Declares(d2, k, src[d].links[i].path[1])
                        /\ out[d].links[i].anchor = "#headline-" \o ToString(k)

\* C8: a link to an identifier the index does not hold is written to the
\* output exactly as authored, and the document still renders without
\* counting an error.
C8_UnresolvedLinkUntouched ==
    pc = "render" =>
        \A d \in Docs \ {Preamble} :
            (rstatus[d] \notin {"pending", "cached"}) =>
                /\ rstatus[d] = "generated"
                /\ errors = 0
                /\ \A i \in 1..Len(src[d].links) :
                       src[d].links[i].path[1] \notin DOMAIN snap.map =>
                           out[d].links[i] = src[d].links[i]

C8_Witness ==
    /\ pc = "render"
    /\ rstatus[DocA] = "generated"
    /\ DOMAIN snap.map = {"u1", "u2"}
    /\ out[DocA].links[2] = AuthoredLink("u9")
    /\ out[DocA].links[1].scheme = "file"

\* the output of d is fresh: it exists and is not older than the source of d
\* nor than the template
Fresh(d) ==
    /\ out[d].exists
    /\ out[d].mtime >= src[d].mtime
    /\ out[d].mtime >= ctx.TmplModTime

\* C9: per-document rendering (which the sentinel never enters) skips a
\* document, leaving its output as it is, exactly when forceRebuild is false
\* and the output is fresh, equal times counting as fresh; otherwise, and
\* always with forceRebuild, the document is rendered and written.
C9_SkipIffFresh ==
    [][\A d \in Docs \ {Preamble} :
          (pc = "render" /\ rstatus[d] = "pending" /\ rstatus'[d] # "pending")
          => /\ (rstatus'[d] = "cached") <=> (~ctx.ForceRebuild /\ Fresh(d))
             /\ rstatus'[d] = "cached" => out'[d] = out[d]
             /\ rstatus'[d] # "cached" =>
                    /\ rstatus'[d] = "generated"
                    /\ out'[d].exists /\ out'[d].mtime = clock]_vars

C9_Witness ==
    /\ pc = "render"
    /\ ~ctx.ForceRebuild
    /\ rstatus[DocA] = "cached"
    /\ out[DocA].mtime = src[DocA].mtime
    /\ builds = 1
    /\ rstatus[DocB] = "generated"

\* C10: after builds with forceRebuild false interleaved with moves of an
\* identifier, every rewritten link of every page present after the latest
\* build leads to the page of the document the latest index gives for the
\* identifier, pages skipped as fresh included.
C10_LinksFollowMoves ==
    (AllRendered /\ ~ctx.ForceRebuild /\ (builds >= 1 => ~prev.ForceRebuild)) =>
        \A d \in Docs \ {Preamble} : out[d].exists =>
            \A i \in 1..Len(out[d].links) :
                out[d].links[i].scheme = "file" =>
                    /\ src[d].links[i].path[1] \in DOMAIN UuidMap
                    /\ Resolve(Dir(HtmlPath(d)), out[d].links[i].path)
                         = HtmlPath(UuidMap[src[d].links[i].path[1]].FilePath)

----------------------------------------------------------------------------
(* One call of replaceUUIDLinks over a range of document paths *)

DirNames == {"subdir", "other"}
FileNames == {"doc1.org", "doc2.org"}

RECURSIVE DirsUpTo(_)
DirsUpTo(n) ==
    IF n = 0 THEN {<<>>}
    ELSE LET shorter == DirsUpTo(n - 1)
         IN  shorter \cup {Append(dir, x) : dir \in shorter, x \in DirNames}

Paths == {Append(dir, f) : dir \in DirsUpTo(MaxDepth), f \in FileNames}

LinkInit ==
    /\ BuildInit
    /\ WatchIdle
    /\ CallIdle
    /\ MainIdle
    /\ OtherIdle
    /\ lpc = "call"
    /\ lcur \in Paths
    /\ ltgt \in Paths
    /\ replaced = <<>>

\* generateHTML's call replaceUUIDLinks(data, keywords, targetPaths, fi.Path)
\* on a document linking to "u1", which the index has, and to "u9"
CallReplaceUUIDLinks ==
    /\ lpc = "call"
    /\ replaced' = replaceUUIDLinks(<<AuthoredLink("u1"), AuthoredLink("u9")>>,
                                    "u1" :> IndexValue(ltgt), lcur)
    /\ lpc' = "done"
    /\ UNCHANGED <<lcur, ltgt, nonLinkVars>>

LinkNext == CallReplaceUUIDLinks

LinkSpec == LinkInit /\ [][LinkNext]_vars

\* the number of leading components two paths share
SharedPrefix(a, b) ==
    CHOOSE n \in 0..Len(a) :
        /\ n <= Len(b)
        /\ SubSeq(a, 1, n) = SubSeq(b, 1, n)
        /\ \A m \in (n + 1)..Len(a) :
               m <= Len(b) => SubSeq(a, 1, m) # SubSeq(b, 1, m)

\* C6: a link of document c to an identifier the index places in document t
\* is rewritten to the .html path of t relative to the directory of c: the
\* directories the two share are dropped and one ".." stands for each
\* remaining directory of c, so that following the link from the page of c
\* reaches the page of t. From doc1.org to subdir/doc2.org this is
\* subdir/doc2.html, and the other way round ../doc1.html.
C6_RelativeLink ==
    lpc = "done" =>
        LET link == replaced[1]
            k == SharedPrefix(Dir(lcur), Dir(ltgt))
        IN  /\ link.scheme = "file"
            /\ link.path = [i \in 1..(Len(Dir(lcur)) - k) |-> ".."]
                              \o SubSeq(HtmlPath(ltgt), k + 1, Len(ltgt))
            /\ Resolve(Dir(HtmlPath(lcur)), link.path) = HtmlPath(ltgt)
            /\ (lcur = <<"doc1.org">> /\ ltgt = <<"subdir", "doc2.org">>)
                   => link.path = <<"subdir", "doc2.html">>
            /\ (lcur = <<"subdir", "doc2.org">> /\ ltgt = <<"doc1.org">>)
                   => link.path = <<"..", "doc1.html">>

C6_Witness ==
    /\ lpc = "done"
    /\ lcur = <<"subdir", "doc2.org">>
    /\ ltgt = <<"other", "subdir", "doc1.org">>
    /\ replaced[1].path = <<"..", "other", "subdir", "doc1.html">>

----------------------------------------------------------------------------
(* Watch mode: runWatchMode of main.go *)

\* rebuildChan := make(chan bool, 1)
RebuildChanCap == 1

WatchInit ==
    /\ BuildInit
    /\ LinkIdle
    /\ WatchIdle
    /\ CallIdle
    /\ MainIdle
    /\ OtherIdle

\* the file system reports a change, under the source tree ("src") or inside
\* the destination directory ("dest")
FsEvent(kind) ==
    /\ Len(events) < MaxQueue
    /\ events' = Append(events, kind)
    /\ unserved' = (unserved \/ kind = "src")
    /\ UNCHANGED <<hpc, mpc, hasPendingRebuild, rebuildChan, running, nonWatchVars>>

\* case event := <-watcher.Events, the op filter and the destination filter
ReceiveEvent ==
    /\ hpc = "select"
    /\ events # <<>>
    /\ events' = Tail(events)
    /\ hpc' = IF Head(events) = "dest" THEN "select" ELSE "check"
    /\ UNCHANGED <<mpc, hasPendingRebuild, rebuildChan, unserved, running, nonWatchVars>>

\* if !hasPendingRebuild
CheckPending ==
    /\ hpc = "check"
    /\ hpc' = IF hasPendingRebuild THEN "select" ELSE "set"
    /\ UNCHANGED <<events, mpc, hasPendingRebuild, rebuildChan, unserved, running, nonWatchVars>>

\* hasPendingRebuild = true
SetPending ==
    /\ hpc = "set"
    /\ hasPendingRebuild' = TRUE
    /\ hpc' = "send"
    /\ UNCHANGED <<events, mpc, rebuildChan, unserved, running, nonWatchVars>>

\* select { case rebuildChan <- true: default: }
TrySend ==
    /\ hpc = "send"
    /\ rebuildChan' = IF rebuildChan < RebuildChanCap THEN rebuildChan + 1
                      ELSE rebuildChan
    /\ hpc' = "select"
    /\ UNCHANGED <<events, mpc, hasPendingRebuild, unserved, running, nonWatchVars>>

\* <-rebuildChan
ReceiveRebuild ==
    /\ mpc = "recv"
    /\ rebuildChan > 0
    /\ rebuildChan' = rebuildChan - 1
    /\ mpc' = "clear"
    /\ UNCHANGED <<events, hpc, hasPendingRebuild, unserved, running, nonWatchVars>>

\* hasPendingRebuild = false
ClearPending ==
    /\ mpc = "clear"
    /\ hasPendingRebuild' = FALSE
    /\ mpc' = "sleep"
    /\ UNCHANGED <<events, hpc, rebuildChan, unserved, running, nonWatchVars>>

\* time.Sleep(100 * time.Millisecond) returns
Debounce ==
    /\ mpc = "sleep"
    /\ mpc' = "drain"
    /\ UNCHANGED <<events, hpc, hasPendingRebuild, rebuildChan, unserved, running, nonWatchVars>>

\* select { case <-rebuildChan: default: }
Drain ==
    /\ mpc = "drain"
    /\ rebuildChan' = IF rebuildChan > 0 THEN rebuildChan - 1 ELSE rebuildChan
    /\ mpc' = "call"
    /\ UNCHANGED <<events, hpc, hasPendingRebuild, unserved, running, nonWatchVars>>

\* go buildSite(...): the loop goes on without waiting for the build
buildSiteSpawned == "recv"

\* if err := buildSite(...): the loop waits in the call until it returns
buildSiteCalled == "build"

\* buildSite(...) is called: a rebuild starts
BuildSiteStarts ==
    /\ mpc = "call"
    /\ mpc' = buildSiteCalled
    /\ running' = running + 1
    /\ unserved' = FALSE
    /\ UNCHANGED <<events, hpc, hasPendingRebuild, rebuildChan, nonWatchVars>>

\* buildSite(...) returns and the loop goes back to <-rebuildChan
BuildSiteReturns ==
    /\ running > 0
    /\ running' = running - 1
    /\ mpc' = IF mpc = "build" THEN "recv" ELSE mpc
    /\ UNCHANGED <<events, hpc, hasPendingRebuild, rebuildChan, unserved, nonWatchVars>>

EventGoroutine == ReceiveEvent \/ CheckPending \/ SetPending \/ TrySend

MainLoop ==
    \/ ReceiveRebuild \/ ClearPending \/ Debounce \/ Drain
    \/ BuildSiteStarts \/ BuildSiteReturns

WatchNext ==
    \/ \E kind \in {"src", "dest"} : FsEvent(kind)
    \/ ReceiveEvent
    \/ CheckPending
    \/ SetPending
    \/ TrySend
    \/ ReceiveRebuild
    \/ ClearPending
    \/ Debounce
    \/ Drain
    \/ BuildSiteStarts
    \/ BuildSiteReturns

WatchSpec == WatchInit /\ [][WatchNext]_vars

\* the Go scheduler runs each goroutine that can take a step; nothing is
\* assumed about when the file system changes
WatchFairSpec ==
    WatchSpec /\ WF_vars(EventGoroutine) /\ WF_vars(MainLoop)

\* C3: every change event outside the destination directory is eventually
\* followed by a rebuild that starts after it, whatever the timing of events
\* against the debounce sleep and against running builds.
C3_ChangeLeadsToRebuild == unserved ~> ~unserved

----------------------------------------------------------------------------
(* isValidUUID of generator/utils.go.  A string is a sequence of bytes,     *)
(* given by their ASCII codes; offset i of the Go string is element i + 1.  *)

\* len(s) != 36
UuidLen == 36

\* isHexChar accepting lower-case digits only
isLowerHexChar(b) == (b >= 48 /\ b <= 57) \/ (b >= 97 /\ b <= 102)

\* (b >= '0' && b <= '9') || (b >= 'a' && b <= 'f') || (b >= 'A' && b <= 'F')
isHexChar(b) ==
    (b >= 48 /\ b <= 57) \/ (b >= 97 /\ b <= 102) \/ (b >= 65 /\ b <= 70)

isValidUUID(s) ==
    IF Len(s) # UuidLen THEN FALSE
    ELSE IF s[9] # 45 \/ s[14] # 45 \/ s[19] # 45 \/ s[24] # 45 THEN FALSE
    ELSE \A i \in 1..Len(s) : ~(s[i] # 45 /\ ~isHexChar(s[i]))

\* the elements that hold the hyphens of the canonical form (offsets 8, 13,
\* 18 and 23)
HyphenAt == {9, 14, 19, 24}

\* "00000000-0000-0000-0000-000000000000"
AllZeros == [i \in 1..UuidLen |-> IF i \in HyphenAt THEN 45 ELSE 48]

\* "ffffffff-ffff-ffff-ffff-ffffffffffff"
AllFs == [i \in 1..UuidLen |-> IF i \in HyphenAt THEN 45 ELSE 102]

\* an identifier mixing decimal digits, lower-case and upper-case letters
MixedCase ==
    [i \in 1..UuidLen |->
        IF i \in HyphenAt THEN 45
        ELSE IF i % 3 = 0 THEN 65 + (i % 6)
        ELSE IF i % 3 = 1 THEN 97 + (i % 6)
        ELSE 48 + (i % 10)]

\* '-', '/', '0', ':', 'F', 'G', 'a', 'g'
CharSamples == {45, 47, 48, 58, 70, 71, 97, 103}

\* the strings the calls start from: identifiers, and strings that are too
\* short, too long, empty or without hyphens
BaseStrings ==
    {AllZeros, AllFs, MixedCase}
        \cup {SubSeq(MixedCase, 1, n) : n \in {0, 8, UuidLen - 1}}
        \cup {Append(AllZeros, 48), SelectSeq(AllFs, LAMBDA b : b # 45)}

\* the elements that get replaced: the first and the last, the four hyphens,
\* a neighbour of a hyphen, the element past the end
PosSamples == {1, 9, 10, 14, 19, 24, 36, 37}

\* every string of S with one more byte replaced
Mutate(S) ==
    S \cup UNION {{[s EXCEPT ![p] = c] : p \in DOMAIN s \cap PosSamples,
                                         c \in CharSamples} : s \in S}

RECURSIVE MutateTimes(_, _)
MutateTimes(S, n) == IF n = 0 THEN S ELSE MutateTimes(Mutate(S), n - 1)

UuidInputs == MutateTimes(BaseStrings, MaxMutations)

UuidInit ==
    /\ BuildInit
    /\ LinkIdle
    /\ WatchIdle
    /\ MainIdle
    /\ OtherIdle
    /\ cpc = "call"
    /\ arg \in UuidInputs
    /\ ret = <<>>

CallIsValidUUID ==
    /\ cpc = "call"
    /\ ret' = isValidUUID(arg)
    /\ cpc' = "done"
    /\ UNCHANGED <<arg, nonCallVars>>

UuidNext == CallIsValidUUID

UuidSpec == UuidInit /\ [][UuidNext]_vars

\* the canonical form: 36 characters, '-' at offsets 8, 13, 18 and 23, a
\* hexadecimal digit of either case everywhere else
HexDigits == (48..57) \cup (65..70) \cup (97..102)

Canonical(s) ==
    /\ Len(s) = 36
    /\ \A i \in 1..Len(s) :
           IF i - 1 \in {8, 13, 18, 23} THEN s[i] = 45 ELSE s[i] \in HexDigits

\* C11: isValidUUID returns false for every string that is not in the
\* canonical form: wrong length, a character other than '-' at offset 8, 13,
\* 18 or 23, or a character that is no hexadecimal digit at another offset.
C11_RejectsNonCanonical ==
    (cpc = "done" /\ ~Canonical(arg)) => ret = FALSE

\* C12: isValidUUID returns true for every string in the canonical form,
\* whatever the case of its digits, the all-zero and all-f identifiers
\* included.
C12_AcceptsCanonical ==
    (cpc = "done" /\ Canonical(arg)) => ret = TRUE

C12_Witness ==
    /\ cpc = "done"
    /\ ret = TRUE
    /\ Canonical(arg)
    /\ arg # MixedCase
    /\ \E i, j, k \in 1..Len(arg) :
           arg[i] \in 48..57 /\ arg[j] \in 65..70 /\ arg[k] \in 97..102

----------------------------------------------------------------------------
(* GenerationResult.Add of generator/types.go *)

\* the results the phases return: discovery, rendering, tag and index pages
\* with static files; each as a phase returns it and as SetStartTime leaves it
ResultSamples ==
    LET n == 0..MaxCount
        shapes ==
            {[ZeroResult EXCEPT !.TotalFilesScanned = a, !.FilesWithUUIDs = b]
                 : a \in n, b \in n}
            \cup {[ZeroResult EXCEPT !.FilesGenerated = a, !.FilesSkipped = b,
                                     !.Errors = c] : a \in n, b \in n, c \in n}
            \cup {[ZeroResult EXCEPT !.TagPagesGenerated = a,
                                     !.StaticFilesCopied = b] : a \in n, b \in n}
    IN  {[r EXCEPT !.startTime = t] : r \in shapes, t \in {0, 1}}

AddInit ==
    /\ BuildInit
    /\ LinkIdle
    /\ WatchIdle
    /\ MainIdle
    /\ OtherIdle
    /\ cpc = "call"
    /\ arg \in ResultSamples \X ResultSamples \X ResultSamples
    /\ ret = <<>>

\* the merges of arg[1], arg[2], arg[3] in both orders and both groupings,
\* and of arg[1] with the zero result
CallAdd ==
    /\ cpc = "call"
    /\ ret' = [ab |-> Add(arg[1], arg[2]),
               ba |-> Add(arg[2], arg[1]),
               ab_c |-> Add(Add(arg[1], arg[2]), arg[3]),
               a_bc |-> Add(arg[1], Add(arg[2], arg[3])),
               a0 |-> Add(arg[1], ZeroResult),
               za |-> Add(ZeroResult, arg[1])]
    /\ cpc' = "done"
    /\ UNCHANGED <<arg, nonCallVars>>

AddNext == CallAdd

AddSpec == AddInit /\ [][AddNext]_vars

Counters ==
    {"TotalFilesScanned", "FilesWithUUIDs", "FilesGenerated", "FilesSkipped",
     "TagPagesGenerated", "StaticFilesCopied", "Errors"}

\* C13: Add is commutative and associative on all counters: the merge of
\* the same results in either order and either grouping gives the same
\* totals, each the sum of the parts.
C13_AddCommutativeAssociative ==
    cpc = "done" =>
        /\ ret.ab = ret.ba
        /\ ret.ab_c = ret.a_bc
        /\ \A f \in Counters : ret.ab_c[f] = arg[1][f] + arg[2][f] + arg[3][f]

C13_Witness ==
    /\ cpc = "done"
    /\ arg[1].TotalFilesScanned = 1
    /\ arg[2].FilesGenerated = 1 /\ arg[2].Errors = 1
    /\ arg[3].StaticFilesCopied = 1
    /\ ret.ab_c.TotalFilesScanned = 1 /\ ret.ab_c.Errors = 1
    /\ ret.ab # ret.ab_c

\* C14 as stated: for every result r, r.Add(zero) and zero.Add(r) are equal
\* to r.
C14_ZeroIsIdentity ==
    cpc = "done" => (ret.a0 = arg[1] /\ ret.za = arg[1])

\* C14, amended: merging r with the all-zero result, on either side, gives
\* every counter of r; the start time of the merge is the zero time, so the
\* merge equals r exactly when r carries no start time, as every result
\* Pipeline.Execute merges does.
C14_ZeroIsIdentityOnCounters ==
    cpc = "done" =>
        /\ \A f \in Counters : ret.a0[f] = arg[1][f] /\ ret.za[f] = arg[1][f]
        /\ ret.a0.startTime = 0 /\ ret.za.startTime = 0
        /\ (arg[1].startTime = 0) <=> (ret.a0 = arg[1] /\ ret.za = arg[1])

C14_Witness ==
    /\ cpc = "done"
    /\ arg[1].startTime = 1
    /\ arg[1].FilesGenerated = 1
    /\ ret.a0.FilesGenerated = 1
    /\ ret.a0 # arg[1]

----------------------------------------------------------------------------
(* One build over a tree in which some documents are empty, cannot be read *)
(* or cannot be written                                                    *)

FaultStates == {"empty", "unreadable", "unwritable"}

\* the source trees with at most MaxFaults such documents; an empty document
\* has no headlines and no links
FaultyTrees ==
    {t \in [Docs -> {"ok"} \cup FaultStates] :
        Cardinality({d \in Docs : t[d] # "ok"}) <= MaxFaults}

FaultInit ==
    /\ \E t \in FaultyTrees :
           src = [d \in Docs |->
                     [state |-> t[d], mtime |-> 0,
                      headings |-> IF t[d] = "empty" THEN <<>> ELSE InitHeadings(d),
                      links |-> IF t[d] = "empty" THEN <<>>
                                ELSE [i \in 1..Len(DocLinks(d)) |->
                                         AuthoredLink(DocLinks(d)[i])]]]
    /\ clock = 0
    /\ out = [d \in Docs |-> [exists |-> FALSE, mtime |-> 0, links |-> <<>>]]
    /\ pc = "idle"
    /\ ctx = [ForceRebuild |-> FALSE, TmplModTime |-> 0]
    /\ Files = [d \in Docs |-> [Path |-> d, ModTime |-> 0, Tags |-> <<>>, UUIDs |-> <<>>]]
    /\ UuidMap = <<>>
    /\ TagMap = <<>>
    /\ wpc = [d \in Docs |-> "done"]
    /\ wtag = [d \in Docs |-> 1]
    /\ existing = [d \in Docs |-> <<>>]
    /\ filesWithUUIDs = 0
    /\ snap = [taken |-> FALSE, map |-> <<>>]
    /\ rstatus = [d \in Docs |-> "pending"]
    /\ filesGenerated = 0
    /\ errors = 0
    /\ result = ZeroResult
    /\ builds = 0
    /\ edits = 0
    /\ dirty = FALSE
    /\ prev = [ForceRebuild |-> FALSE, TmplModTime |-> 0]
    /\ stored = {}
    /\ lateRead = FALSE
    /\ LinkIdle
    /\ WatchIdle
    /\ CallIdle
    /\ MainIdle
    /\ OtherIdle

FaultNext ==
    \/ \E force \in BOOLEAN : StartBuild(force, 0) /\ builds = 0
    \/ \E d \in Docs : ProcessFile(d)
    \/ \E d \in Docs : TagLoadOrStore(d)
    \/ \E d \in Docs : TagStore(d)
    \/ FindReturn
    \/ RangeUuidMap
    \/ \E d \in Docs : GenerateHTML(d)
    \/ RenderReturn

FaultSpec == FaultInit /\ [][FaultNext]_vars

\* the documents discovery could not process: read failure or no content
FailedInDiscovery == {d \in Docs : src[d].state \in {"unreadable", "empty"}}

C17_FailuresCounted ==
    (pc = "render" /\ ~snap.taken) =>
        result.Errors + result.FilesSkipped = Cardinality(FailedInDiscovery)

\* C18: an empty source file causes no error, adds nothing to the identifier
\* index or the tag index, is not among the files counted as scanned, and
\* no later phase of the build touches it; a non-empty file whose only
\* headline has no ID adds nothing to the identifier index and is counted.
C18_EmptyFileSkipped ==
    AllRendered =>
        /\ \A d \in Docs : src[d].state = "empty" =>
               /\ \A u \in DOMAIN UuidMap : UuidMap[u].FilePath # d
               /\ \A t \in DOMAIN TagMap : d \notin Range(TagMap[t])
               /\ rstatus[d] \notin {"generated", "error"}
               /\ ~out[d].exists
        /\ errors = Cardinality({d \in Docs :
                         src[d].state \in {"unreadable", "unwritable"}})
        /\ result.TotalFilesScanned =
               Cardinality({d \in Docs : src[d].state # "empty"})
        /\ \A d \in Docs :
               (src[d].state = "ok" /\ Len(src[d].headings) = 1
                    /\ src[d].headings[1].ids = <<>>) =>
                   \A u \in DOMAIN UuidMap : UuidMap[u].FilePath # d

----------------------------------------------------------------------------
(* main.go: phase3 and its generateHTML, which count in state.stats *)

\* generateHTML of main.go for file fi with the counters st: whether it
\* returns an error, the counters it leaves and what became of the file
generateHTML(fi, c, st) ==
    IF IsSentinel(fi)
    THEN [err |-> FALSE, stats |-> st, status |-> "sentinel"]
    ELSE IF CacheValid(fi, c, out[fi.Path])
    THEN [err |-> FALSE, status |-> "skipped",
          stats |-> [st EXCEPT !.filesSkipped = @ + 1]]
    ELSE IF src[fi.Path].state \in {"unreadable", "unwritable"}
    THEN [err |-> TRUE, status |-> "failed",
          stats |-> [st EXCEPT !.errors = @ + 1]]
    ELSE [err |-> FALSE, status |-> "generated",
          stats |-> [st EXCEPT !.filesGenerated = @ + 1]]

\* state.orgFiles after phase 2: the files that had content
orgFiles == {d \in Docs : src[d].state # "empty"}

\* state.uuidMap after phase 2: every ID of the files of state.orgFiles
uuidMapAfterPhase2 ==
    LET declared == {u \in Ids : \E d \in orgFiles :
                        \E k \in 1..Len(src[d].headings) :
                            u \in Range(src[d].headings[k].ids)}
    IN  [u \in declared |->
            IndexValue(CHOOSE d \in orgFiles :
                           \E k \in 1..Len(src[d].headings) :
                               u \in Range(src[d].headings[k].ids))]

\* phase3 is entered: phase 2 has filled state.orgFiles and state.uuidMap; a
\* file may since have become unreadable, or its page may be unwritable
Phase3Init ==
    /\ \E t \in FaultyTrees :
           src = [d \in Docs |->
                     [state |-> t[d], mtime |-> 0,
                      headings |-> IF t[d] = "empty" THEN <<>> ELSE InitHeadings(d),
                      links |-> IF t[d] = "empty" THEN <<>>
                                ELSE [i \in 1..Len(DocLinks(d)) |->
                                         AuthoredLink(DocLinks(d)[i])]]]
    /\ clock = 0
    /\ \E e \in BOOLEAN :
           out = [d \in Docs |-> [exists |-> e, mtime |-> 0, links |-> <<>>]]
    /\ pc = "idle"
    /\ \E force \in BOOLEAN : ctx = [ForceRebuild |-> force, TmplModTime |-> 0]
    /\ Files = collectOrgFiles
    /\ UuidMap = uuidMapAfterPhase2
    /\ TagMap = <<>>
    /\ wpc = [d \in Docs |-> "done"]
    /\ wtag = [d \in Docs |-> 1]
    /\ existing = [d \in Docs |-> <<>>]
    /\ filesWithUUIDs = 0
    /\ snap = [taken |-> FALSE, map |-> <<>>]
    /\ rstatus = [d \in Docs |-> "pending"]
    /\ filesGenerated = 0
    /\ errors = 0
    /\ result = ZeroResult
    /\ builds = 0
    /\ edits = 0
    /\ dirty = FALSE
    /\ prev = [ForceRebuild |-> FALSE, TmplModTime |-> 0]
    /\ stored = {}
    /\ lateRead = FALSE
    /\ gpc = "range"
    /\ gstatus = [d \in Docs |-> IF d \in orgFiles THEN "queued" ELSE "none"]
    /\ stats = [filesGenerated |-> 0, filesSkipped |-> 0, errors |-> 0]
    /\ LinkIdle
    /\ WatchIdle
    /\ CallIdle
    /\ OtherIdle

\* state.uuidMap.Range(...) fills keywords and replacements
Phase3Range ==
    /\ gpc = "range"
    /\ snap' = [taken |-> TRUE, map |-> UuidMap]
    /\ gpc' = "workers"
    /\ UNCHANGED <<clock, src, out, pc, ctx, Files, UuidMap, TagMap, wpc, wtag,
                   existing, filesWithUUIDs, rstatus, filesGenerated, errors,
                   result, builds, edits, dirty, prev, stored, lateRead>>
    /\ UNCHANGED <<gstatus, stats, linkVars, watchVars, callVars, otherVars>>

\* a worker of phase3 takes fi from fileQueue: generateHTML, and on an error
\* the worker's own atomic.AddInt64(&state.stats.errors, 1)
Phase3Worker(d) ==
    /\ gpc = "workers"
    /\ gstatus[d] = "queued"
    /\ LET r == generateHTML(Files[d], ctx, stats)
       IN  /\ stats' = IF r.err THEN [r.stats EXCEPT !.errors = @ + 1]
                       ELSE r.stats
           /\ gstatus' = [gstatus EXCEPT ![d] = r.status]
           /\ out' = IF r.status = "generated"
                     THEN [out EXCEPT ![d] =
                              [exists |-> TRUE, mtime |-> clock,
                               links |-> replaceUUIDLinks(src[d].links, snap.map, d)]]
                     ELSE out
    /\ UNCHANGED <<clock, src, pc, ctx, Files, UuidMap, TagMap, wpc, wtag,
                   existing, filesWithUUIDs, snap, rstatus, filesGenerated,
                   errors, result, builds, edits, dirty, prev, stored, lateRead>>
    /\ UNCHANGED <<gpc, linkVars, watchVars, callVars, otherVars>>

\* close(fileQueue), wg.Wait(): every file has been taken and handled
Phase3Return ==
    /\ gpc = "workers"
    /\ \A d \in Docs : gstatus[d] # "queued"
    /\ gpc' = "done"
    /\ UNCHANGED <<gstatus, stats, nonMainVars>>

Phase3Next ==
    \/ Phase3Range
    \/ \E d \in Docs : Phase3Worker(d)
    \/ Phase3Return

Phase3Spec == Phase3Init /\ [][Phase3Next]_vars

\* C16: when rendering is over, the error counter is the number of documents
\* whose rendering failed, the generated counter is the number of documents
\* whose page was written, and every document that did not fail was handled.
C16_FailureCountedOnce ==
    gpc = "done" =>
        /\ stats.errors = Cardinality({d \in Docs : gstatus[d] = "failed"})
        /\ stats.filesGenerated =
               Cardinality({d \in Docs : gstatus[d] = "generated"})
        /\ \A d \in orgFiles :
               gstatus[d] \in {"sentinel", "skipped", "generated", "failed"}

\* C19: no page is ever written for sitemap-preamble.org, and rendering
\* never reads or counts it as anything but the sentinel, whatever the
\* forceRebuild flag and the modification times.
C19_SentinelNeverRendered ==
    /\ ~out[Preamble].exists
    /\ rstatus[Preamble] \in {"pending", "sentinel"}

\* a forced build, after an earlier build, has handled the sentinel and
\* written another page
C19_Witness ==
    /\ ctx.ForceRebuild
    /\ builds >= 1
    /\ rstatus[Preamble] = "sentinel"
    /\ \E d \in Docs : rstatus[d] = "generated"

\* C20: in watch mode at most one call of buildSite is in progress and at
\* most one rebuild request is pending at any time, and while a build is in
\* progress every step other than its own return (an arriving event, a step
\* of the event goroutine) leaves it in progress and starts no other.
C20_OneBuildAtATime ==
    /\ [](running <= 1 /\ rebuildChan <= 1)
    /\ [][(running = 1 /\ ~(mpc = "build" /\ mpc' = "recv"))
              => (running' = 1 /\ mpc' = "build")]_vars

\* during a build one change is already waiting in rebuildChan and the event
\* goroutine is looking at a further one
C20_Witness ==
    /\ mpc = "build"
    /\ running = 1
    /\ rebuildChan = 1
    /\ hasPendingRebuild
    /\ hpc = "check"

----------------------------------------------------------------------------
(* server/server.go: the reload broadcaster and its SSE clients *)

\* reloadChan: make(chan struct{}, 1)
ReloadChanCap == 1

Clients == 1..MaxClients

\* a browser requests /reload: HandleSSE is entered and sets the headers
Connect(c) ==
    /\ conn[c] = "none"
    /\ conn' = [conn EXCEPT ![c] = "open"]
    /\ UNCHANGED <<reloadChan, clients, bpc, toVisit, delivered, notified, owed>>
    /\ UNCHANGED nonServerVars

\* s.clients.Store(r.RemoteAddr, client); a Range that is running may or may
\* not call back for the new key
Register(c) ==
    /\ conn[c] = "open"
    /\ conn' = [conn EXCEPT ![c] = "registered"]
    /\ clients' = clients \cup {c}
    /\ \/ toVisit' = toVisit
       \/ bpc = "range" /\ toVisit' = toVisit \cup {c}
    /\ UNCHANGED <<reloadChan, bpc, delivered, notified, owed>>
    /\ UNCHANGED nonServerVars

\* the browser closes the connection; nothing closes client.done, so HandleSSE
\* stays in <-client.done and the entry stays in s.clients
Disconnect(c) ==
    /\ conn[c] = "registered"
    /\ conn' = [conn EXCEPT ![c] = "gone"]
    /\ UNCHANGED <<reloadChan, clients, bpc, toVisit, delivered, notified, owed>>
    /\ UNCHANGED nonServerVars

\* a send that queues the signal whatever the channel holds
QueueSend(ch, cap) == ch + 1

\* select { case ch <- struct{}{}: default: }: the signal is queued if the
\* buffer has room and dropped otherwise
SelectSend(ch, cap) == IF ch < cap THEN ch + 1 ELSE ch

\* NotifyReload
NotifyReload ==
    /\ reloadChan' = SelectSend(reloadChan, ReloadChanCap)
    /\ notified' = TRUE
    /\ UNCHANGED <<clients, conn, bpc, toVisit, delivered, owed>>
    /\ UNCHANGED nonServerVars

\* for range s.reloadChan: a signal is received and s.clients.Range begins
BroadcastReceive ==
    /\ bpc = "recv"
    /\ reloadChan > 0
    /\ reloadChan' = reloadChan - 1
    /\ bpc' = "range"
    /\ toVisit' = clients
    /\ delivered' = {}
    /\ notified' = FALSE
    /\ owed' = owed \cup {c \in clients : conn[c] = "registered"}
    /\ UNCHANGED <<clients, conn>>
    /\ UNCHANGED nonServerVars

\* a Range callback that returns false: the iteration stops
RangeStops == FALSE

\* return true at the end of the Range callback: the iteration goes on
RangeContinues == TRUE

\* the Range callback for client c: Write, Flush, return true; the write to a
\* browser that went away fails and its error is dropped
BroadcastWrite(c) ==
    /\ bpc = "range"
    /\ c \in toVisit
    /\ delivered' = IF conn[c] = "registered" THEN delivered \cup {c}
                    ELSE delivered
    /\ owed' = owed \ {c}
    /\ toVisit' = IF RangeContinues THEN toVisit \ {c} ELSE {}
    /\ UNCHANGED <<reloadChan, clients, conn, bpc, notified>>
    /\ UNCHANGED nonServerVars

\* Range returns and the loop goes back to receiving
BroadcastDone ==
    /\ bpc = "range"
    /\ toVisit = {}
    /\ bpc' = "recv"
    /\ UNCHANGED <<reloadChan, clients, conn, toVisit, delivered, notified, owed>>
    /\ UNCHANGED nonServerVars

startReloadBroadcaster ==
    \/ BroadcastReceive
    \/ \E c \in Clients : BroadcastWrite(c)
    \/ BroadcastDone

ServerInit ==
    /\ BuildInit
    /\ LinkIdle
    /\ WatchIdle
    /\ CallIdle
    /\ MainIdle
    /\ LookupIdle
    /\ AggIdle
    /\ WalkIdle
    /\ reloadChan = 0
    /\ clients = {}
    /\ conn = [c \in Clients |-> "none"]
    /\ bpc = "recv"
    /\ toVisit = {}
    /\ delivered = {}
    /\ notified = FALSE
    /\ owed = {}

ServerNext ==
    \/ \E c \in Clients : Connect(c)
    \/ \E c \in Clients : Register(c)
    \/ \E c \in Clients : Disconnect(c)
    \/ NotifyReload
    \/ BroadcastReceive
    \/ \E c \in Clients : BroadcastWrite(c)
    \/ BroadcastDone

ServerSpec == ServerInit /\ [][ServerNext]_vars

\* go s.startReloadBroadcaster(): the scheduler runs the broadcaster whenever
\* it can take a step; nothing is assumed about browsers or about the callers
\* of NotifyReload
ServerFairSpec == ServerSpec /\ WF_vars(startReloadBroadcaster)

\* C34: a client that disconnects is eventually removed from s.clients
C34_DisconnectedRemoved ==
    \A c \in Clients : (conn[c] = "gone") ~> (c \notin clients)

\* C39: NotifyReload can always be called and returns, whatever the
\* broadcaster does, and calls made while a signal is pending add none: at
\* most one signal, hence one broadcast, is pending
C39_NotifyNeverBlocks ==
    /\ [](ENABLED NotifyReload /\ reloadChan <= ReloadChanCap)
    /\ [][reloadChan = ReloadChanCap => reloadChan' <= reloadChan]_vars

\* a signal is pending while the broadcaster is in the middle of a broadcast
\* that clients are registered for
C39_Witness ==
    /\ reloadChan = ReloadChanCap
    /\ bpc = "range"
    /\ notified
    /\ toVisit # {}

\* C21: after a call of NotifyReload the broadcaster eventually receives a
\* signal, and every client that is registered when it receives one is
\* eventually written "data: reload" (unless it has gone away by then).
C21_ReloadReachesClients ==
    /\ notified ~> ~notified
    /\ \A c \in Clients :
           (c \in owed) ~> (c \in delivered \/ conn[c] = "gone")

\* one broadcast has written to two registered clients
C21_Witness ==
    /\ ~notified
    /\ bpc = "range"
    /\ owed = {}
    /\ Cardinality(delivered) >= 2
    /\ \A c \in delivered : conn[c] = "registered"

----------------------------------------------------------------------------
(* main.go: the lookup-id command *)

\* s.fileChan = make(chan FileInfo, 1000) in buildState.reset
FileChanCap == 1000

\* the numbers of .org files in the tree: none, a few, as many as
\* state.fileChan holds, and more
FileCounts == {0, 1, 2, FileChanCap} \cup {FileChanCap + x : x \in 1..MaxExtra}

\* state.reset() has run and walkDirectoryConcurrent starts
LookupInit ==
    /\ BuildInit
    /\ LinkIdle
    /\ WatchIdle
    /\ CallIdle
    /\ MainIdle
    /\ ServerIdle
    /\ AggIdle
    /\ WalkIdle
    /\ lkpc = "walk"
    /\ workers \in 1..MaxWorkers
    /\ nFiles \in FileCounts
    /\ holder \in {0} \cup ({1, nFiles} \cap 1..nFiles)
    /\ sent = 0
    /\ fileChan = 0
    /\ holding = [w \in 1..workers |-> "none"]
    /\ found = FALSE
    /\ printed = ""

\* state.fileChan <- FileInfo{...} in walkDirectoryConcurrent or in the
\* walkDirectory of one of its workers: the send waits while the channel is
\* full
WalkSends ==
    /\ lkpc = "walk"
    /\ sent < nFiles
    /\ fileChan < FileChanCap
    /\ sent' = sent + 1
    /\ fileChan' = fileChan + 1
    /\ UNCHANGED <<lkpc, workers, nFiles, holder, holding, found, printed>>
    /\ UNCHANGED nonLookupVars

\* walkDirectoryConcurrent returns (close(dirChan), wg.Wait()), then
\* close(state.fileChan) and the file processing workers are started
WalkReturns ==
    /\ lkpc = "walk"
    /\ sent = nFiles
    /\ lkpc' = "process"
    /\ UNCHANGED <<workers, nFiles, holder, sent, fileChan, holding, found, printed>>
    /\ UNCHANGED nonLookupVars

\* for fi := range state.fileChan: worker w takes the next file
WorkerTakes(w) ==
    /\ lkpc = "process"
    /\ holding[w] = "none"
    /\ fileChan > 0
    /\ holding' = [holding EXCEPT ![w] =
                       IF sent - fileChan + 1 = holder THEN "holder" ELSE "other"]
    /\ fileChan' = fileChan - 1
    /\ UNCHANGED <<lkpc, workers, nFiles, holder, sent, found, printed>>
    /\ UNCHANGED nonLookupVars

\* processFile for the file worker w took: state.uuidMap.Store("id:"+uuid, ..)
WorkerProcesses(w) ==
    /\ lkpc = "process"
    /\ holding[w] # "none"
    /\ found' = (found \/ holding[w] = "holder")
    /\ holding' = [holding EXCEPT ![w] = "none"]
    /\ UNCHANGED <<lkpc, workers, nFiles, holder, sent, fileChan, printed>>
    /\ UNCHANGED nonLookupVars

\* fileProcessingWG.Wait() returns: the channel is drained, every worker left
WorkersDone ==
    /\ lkpc = "process"
    /\ fileChan = 0
    /\ \A w \in 1..workers : holding[w] = "none"
    /\ lkpc' = "print"
    /\ UNCHANGED <<workers, nFiles, holder, sent, fileChan, holding, found, printed>>
    /\ UNCHANGED nonLookupVars

\* state.uuidMap.Load("id:" + args[1]) and the Printf of either branch
LookupPrints ==
    /\ lkpc = "print"
    /\ printed' = IF found THEN "found" ELSE "not found"
    /\ lkpc' = "exit"
    /\ UNCHANGED <<workers, nFiles, holder, sent, fileChan, holding, found>>
    /\ UNCHANGED nonLookupVars

LookupNext ==
    \/ WalkSends
    \/ WalkReturns
    \/ \E w \in DOMAIN holding : WorkerTakes(w)
    \/ \E w \in DOMAIN holding : WorkerProcesses(w)
    \/ WorkersDone
    \/ LookupPrints

LookupSpec == LookupInit /\ [][LookupNext]_vars

\* the scheduler runs every goroutine that can take a step
LookupFairSpec == LookupSpec /\ WF_vars(LookupNext)

\* C22: lookup-id eventually exits, having printed "found" when a file
\* declares the ID and "not found" when none does, for every number of files
\* and every worker count.
C22_LookupTerminates ==
    <>(/\ lkpc = "exit"
       /\ printed = IF holder # 0 THEN "found" ELSE "not found")

----------------------------------------------------------------------------
(* One build over a tree in which several documents declare the same ID *)

\* the identifier declared more than once
SharedId == "u7"

\* the headlines of d when the documents of D each declare SharedId on one
\* more headline
DupHeadings(d, D) ==
    IF d \in D
    THEN Append(InitHeadings(d), [tags |-> <<>>, ids |-> <<SharedId>>])
    ELSE InitHeadings(d)

DupInit ==
    /\ \E D \in SUBSET Docs :
           /\ Cardinality(D) >= 2
           /\ src = [d \in Docs |->
                        [state |-> "ok", mtime |-> 0,
                         headings |-> DupHeadings(d, D),
                         links |-> [i \in 1..Len(DocLinks(d)) |->
                                       AuthoredLink(DocLinks(d)[i])]]]
    /\ clock = 0
    /\ out = [d \in Docs |-> [exists |-> FALSE, mtime |-> 0, links |-> <<>>]]
    /\ pc = "idle"
    /\ ctx = [ForceRebuild |-> FALSE, TmplModTime |-> 0]
    /\ Files = [d \in Docs |-> [Path |-> d, ModTime |-> 0, Tags |-> <<>>, UUIDs |-> <<>>]]
    /\ UuidMap = <<>>
    /\ TagMap = <<>>
    /\ wpc = [d \in Docs |-> "done"]
    /\ wtag = [d \in Docs |-> 1]
    /\ existing = [d \in Docs |-> <<>>]
    /\ filesWithUUIDs = 0
    /\ snap = [taken |-> FALSE, map |-> <<>>]
    /\ rstatus = [d \in Docs |-> "pending"]
    /\ filesGenerated = 0
    /\ errors = 0
    /\ result = ZeroResult
    /\ builds = 0
    /\ edits = 0
    /\ dirty = FALSE
    /\ prev = [ForceRebuild |-> FALSE, TmplModTime |-> 0]
    /\ stored = {}
    /\ lateRead = FALSE
    /\ LinkIdle
    /\ WatchIdle
    /\ CallIdle
    /\ MainIdle
    /\ OtherIdle

DupSpec == DupInit /\ [][FaultNext]_vars

\* the documents with a headline that declares u
Declarers(u) ==
    {d \in Docs : \E k \in 1..Len(src[d].headings) :
                      u \in Range(src[d].headings[k].ids)}

\* the goroutine of d runs its stores in this step
StoresOf(d) == pc = "discover" /\ wpc[d] = "start" /\ wpc'[d] # "start"

\* C23: for an identifier that several documents declare, each declaring
\* document's store leaves the index pointing to that document and nothing
\* else changes the mapping, so that after discovery the index holds one
\* mapping for it, to the document that stored last; no error is counted.
C23_LastWriterWins ==
    /\ [](pc = "render" =>
             /\ SharedId \in DOMAIN UuidMap
             /\ UuidMap[SharedId].FilePath \in Declarers(SharedId)
             /\ result.Errors = 0)
    /\ [][/\ \A d \in Declarers(SharedId) :
                 StoresOf(d) => UuidMap'[SharedId] = IndexValue(d)
          /\ (SharedId \in DOMAIN UuidMap /\ SharedId \in DOMAIN UuidMap'
                  /\ UuidMap'[SharedId] # UuidMap[SharedId])
                 => \E d \in Declarers(SharedId) : StoresOf(d)]_vars

\* three documents declare the identifier and the index points to the one
\* that is neither the first nor the last of the walk
C23_Witness ==
    /\ pc = "render"
    /\ Cardinality(Declarers(SharedId)) >= 3
    /\ SharedId \in DOMAIN UuidMap
    /\ UuidMap[SharedId].FilePath = DocB

----------------------------------------------------------------------------
(* generator/phase2.go and phase3.go: the phases after discovery, run over  *)
(* the indexes discovery has left and the pages an earlier build produced   *)

\* recentFiles holds at most this many files
RecentCount == 5

\* the sequences that list each element of S once
Perms(S) == {p \in [1..Cardinality(S) -> S] : Range(p) = S}

\* the tags discovery found, and the documents it found under tag t
AllTags == UNION {Range(extractTagsFromAST(src[d].headings)) : d \in Docs}

TaggedDocs(t) == {d \in Docs : t \in Range(extractTagsFromAST(src[d].headings))}

\* TagMap.Range in a later phase: the map is left as it was
RangeAndClear(tm) == <<>>

RangeTagMap(tm) == tm

\* the check that lets GenerateTagPages and GenerateIndexPage return early
AggCacheValid(c, html) ==
    /\ ~c.ForceRebuild
    /\ html.exists
    /\ ~After(c.TmplModTime, html.mtime)

\* discovery has returned; an earlier build, if there was one, left its pages
\* at time 0, made from the tag lists of that time; sources and templates
\* may have changed since
AggInit ==
    /\ clock = MaxTime
    /\ \E mt \in [Docs -> 0..MaxTime] :
           src = [d \in Docs |->
                     [state |-> "ok", mtime |-> mt[d], headings |-> InitHeadings(d),
                      links |-> [i \in 1..Len(DocLinks(d)) |->
                                    AuthoredLink(DocLinks(d)[i])]]]
    /\ pc = "render"
    /\ \E force \in BOOLEAN, tmpl \in 0..MaxTime :
           ctx = [ForceRebuild |-> force, TmplModTime |-> tmpl]
    /\ Files = [d \in Docs |->
                   [Path |-> d, ModTime |-> src[d].mtime,
                    Tags |-> extractTagsFromAST(src[d].headings),
                    UUIDs |-> extractUUIDsFromAST(src[d].headings)]]
    /\ UuidMap = uuidMapAfterPhase2
    /\ TagMap \in {tm \in [AllTags -> UNION {Perms(TaggedDocs(t)) : t \in AllTags}] :
                      \A t \in AllTags : tm[t] \in Perms(TaggedDocs(t))}
    /\ \E earlier \in {"none", "same", "shorter"} :
           /\ out = [d \in Docs |->
                        [exists |-> earlier # "none" /\ d # Preamble,
                         mtime |-> 0, links |-> <<>>]]
           /\ tagOut = [t \in AllTags |->
                           [exists |-> earlier # "none", mtime |-> 0,
                            files |-> IF earlier = "none" THEN <<>>
                                      ELSE IF earlier = "same" THEN TagMap[t]
                                      ELSE SubSeq(TagMap[t], 1, Len(TagMap[t]) - 1)]]
           /\ indexOut = [exists |-> earlier # "none", mtime |-> 0,
                          recent |-> IF earlier = "none" THEN {} ELSE Docs,
                          tags |-> [t \in AllTags |-> Len(tagOut[t].files)]]
    /\ wpc = [d \in Docs |-> "done"]
    /\ wtag = [d \in Docs |-> 1]
    /\ existing = [d \in Docs |-> <<>>]
    /\ filesWithUUIDs = 0
    /\ snap = [taken |-> FALSE, map |-> <<>>]
    /\ rstatus = [d \in Docs |-> "pending"]
    /\ filesGenerated = 0
    /\ errors = 0
    /\ result = ZeroResult
    /\ builds = 0
    /\ edits = 0
    /\ dirty = FALSE
    /\ prev = [ForceRebuild |-> FALSE, TmplModTime |-> 0]
    /\ stored = {}
    /\ lateRead = FALSE
    /\ tstatus = [t \in AllTags |-> "pending"]
    /\ istatus = "pending"
    /\ tagPagesGenerated = 0
    /\ LinkIdle
    /\ WatchIdle
    /\ CallIdle
    /\ MainIdle
    /\ ServerIdle
    /\ LookupIdle
    /\ WalkIdle

\* wg.Wait() of GenerateHtmlPages returns, Pipeline.Execute adds its result
\* and calls GenerateTagPages
GenerateHtmlPagesReturns ==
    /\ AllRendered
    /\ result' = Add(result, [ZeroResult EXCEPT
                                 !.FilesGenerated = filesGenerated,
                                 !.Errors = errors])
    /\ pc' = "tags"
    /\ UNCHANGED <<clock, src, out, ctx, Files, UuidMap, TagMap, wpc, wtag,
                   existing, filesWithUUIDs, snap, rstatus, filesGenerated,
                   errors, builds, edits, dirty, prev, stored, lateRead>>
    /\ UNCHANGED <<aggVars, nonAggVars>>

\* the goroutine GenerateTagPages starts for tag t with the list Range gave
GenerateTagPage(t) ==
    /\ pc = "tags"
    /\ t \in DOMAIN TagMap
    /\ tstatus[t] = "pending"
    /\ TagMap' = RangeTagMap(TagMap)
    /\ IF AggCacheValid(ctx, tagOut[t])
       THEN /\ tstatus' = [tstatus EXCEPT ![t] = "skipped"]
            /\ UNCHANGED <<tagOut, tagPagesGenerated>>
       ELSE /\ tagOut' = [tagOut EXCEPT ![t] =
                             [exists |-> TRUE, mtime |-> clock, files |-> TagMap[t]]]
            /\ tstatus' = [tstatus EXCEPT ![t] = "generated"]
            /\ tagPagesGenerated' = tagPagesGenerated + 1
    /\ UNCHANGED <<clock, src, out, pc, ctx, Files, UuidMap, wpc, wtag,
                   existing, filesWithUUIDs, snap, rstatus, filesGenerated,
                   errors, result, builds, edits, dirty, prev, stored, lateRead>>
    /\ UNCHANGED <<indexOut, istatus, nonAggVars>>

\* wg.Wait() of GenerateTagPages returns, Pipeline.Execute adds its result
\* and calls GenerateIndexPage
GenerateTagPagesReturns ==
    /\ pc = "tags"
    /\ \A t \in DOMAIN TagMap : tstatus[t] # "pending"
    /\ result' = Add(result, [ZeroResult EXCEPT
                                 !.TagPagesGenerated = tagPagesGenerated])
    /\ pc' = "index"
    /\ UNCHANGED <<clock, src, out, ctx, Files, UuidMap, TagMap, wpc, wtag,
                   existing, filesWithUUIDs, snap, rstatus, filesGenerated,
                   errors, builds, edits, dirty, prev, stored, lateRead>>
    /\ UNCHANGED <<aggVars, nonAggVars>>

\* the sets recentFiles can be: every file when there are at most RecentCount,
\* otherwise RecentCount files none of which is older than a file left out
RecentFiles ==
    IF Cardinality(Docs) <= RecentCount THEN {Docs}
    ELSE {S \in SUBSET Docs :
             /\ Cardinality(S) = RecentCount
             /\ \A a \in S, b \in Docs \ S : ~After(Files[b].ModTime, Files[a].ModTime)}

\* GenerateIndexPage, and Pipeline.Execute adding its result
GenerateIndexPage ==
    /\ pc = "index"
    /\ TagMap' = RangeTagMap(TagMap)
    /\ IF AggCacheValid(ctx, indexOut)
       THEN /\ istatus' = "skipped"
            /\ result' = Add(result, [ZeroResult EXCEPT !.FilesSkipped = 1])
            /\ UNCHANGED indexOut
       ELSE /\ \E recentFiles \in RecentFiles :
                   indexOut' = [exists |-> TRUE, mtime |-> clock,
                                recent |-> recentFiles,
                                tags |-> [t \in DOMAIN TagMap |-> Len(TagMap[t])]]
            /\ istatus' = "generated"
            /\ result' = Add(result, [ZeroResult EXCEPT !.FilesGenerated = 1])
    /\ pc' = "done"
    /\ UNCHANGED <<clock, src, out, ctx, Files, UuidMap, wpc, wtag,
                   existing, filesWithUUIDs, snap, rstatus, filesGenerated,
                   errors, builds, edits, dirty, prev, stored, lateRead>>
    /\ UNCHANGED <<tagOut, tstatus, tagPagesGenerated, nonAggVars>>

AggNext ==
    \/ RangeUuidMap
    \/ \E d \in Docs : GenerateHTML(d)
    \/ GenerateHtmlPagesReturns
    \/ \E t \in DOMAIN TagMap : GenerateTagPage(t)
    \/ GenerateTagPagesReturns
    \/ GenerateIndexPage

AggSpec == AggInit /\ [][AggNext]_vars

\* C24: from the return of discovery to the end of the build, no step of
\* page rendering, of the tag pages or of the index page changes the
\* identifier index or the tag index.
C24_IndexesReadOnly ==
    [][UuidMap' = UuidMap /\ TagMap' = TagMap]_vars

\* the build is over: pages, a tag page and the index page were written from
\* indexes that are not empty
C24_Witness ==
    /\ pc = "done"
    /\ istatus = "generated"
    /\ \E t \in DOMAIN TagMap : tstatus[t] = "generated" /\ Len(TagMap[t]) >= 2
    /\ \E d \in Docs : rstatus[d] = "generated"
    /\ DOMAIN UuidMap # {}

\* C29: with forceRebuild false, a tag page that is left as it was has no
\* contributing document newer than the page and none that the page does
\* not list, and an index page that is left as it was is not older than any
\* document and counts every tag's documents as the tag index does.
C29_ContributorInvalidates ==
    (pc = "done" /\ ~ctx.ForceRebuild) =>
        /\ \A t \in DOMAIN TagMap : tstatus[t] = "skipped" =>
               \A d \in Range(TagMap[t]) :
                   /\ ~After(src[d].mtime, tagOut[t].mtime)
                   /\ d \in Range(tagOut[t].files)
        /\ istatus = "skipped" =>
               /\ \A d \in Docs : ~After(src[d].mtime, indexOut.mtime)
               /\ \A t \in DOMAIN TagMap : indexOut.tags[t] = Len(TagMap[t])

----------------------------------------------------------------------------
(* One build over a tree in which a first headline carries a tag twice *)

\* the headlines of d when the documents of R write the tag of their first
\* headline twice (":emacs:emacs:")
RepHeadings(d, R) ==
    LET h == InitHeadings(d)
    IN  IF d \in R /\ h # <<>>
        THEN [h EXCEPT ![1].tags = @ \o @]
        ELSE h

RepInit ==
    /\ \E R \in SUBSET {DocA, DocB} :
           src = [d \in Docs |->
                     [state |-> "ok", mtime |-> 0,
                      headings |-> RepHeadings(d, R),
                      links |-> [i \in 1..Len(DocLinks(d)) |->
                                    AuthoredLink(DocLinks(d)[i])]]]
    /\ clock = 0
    /\ out = [d \in Docs |-> [exists |-> FALSE, mtime |-> 0, links |-> <<>>]]
    /\ pc = "idle"
    /\ ctx = [ForceRebuild |-> FALSE, TmplModTime |-> 0]
    /\ Files = [d \in Docs |-> [Path |-> d, ModTime |-> 0, Tags |-> <<>>, UUIDs |-> <<>>]]
    /\ UuidMap = <<>>
    /\ TagMap = <<>>
    /\ wpc = [d \in Docs |-> "done"]
    /\ wtag = [d \in Docs |-> 1]
    /\ existing = [d \in Docs |-> <<>>]
    /\ filesWithUUIDs = 0
    /\ snap = [taken |-> FALSE, map |-> <<>>]
    /\ rstatus = [d \in Docs |-> "pending"]
    /\ filesGenerated = 0
    /\ errors = 0
    /\ result = ZeroResult
    /\ builds = 0
    /\ edits = 0
    /\ dirty = FALSE
    /\ prev = [ForceRebuild |-> FALSE, TmplModTime |-> 0]
    /\ stored = {}
    /\ lateRead = FALSE
    /\ LinkIdle
    /\ WatchIdle
    /\ CallIdle
    /\ MainIdle
    /\ OtherIdle

RepSpec == RepInit /\ [][FaultNext]_vars

\* C25: after discovery no document path stands twice in the list of any
\* tag, whatever tags the first headlines carry.
C25_TagListsDeduplicated ==
    pc = "render" =>
        \A t \in DOMAIN TagMap :
            \A i, j \in 1..Len(TagMap[t]) :
                i # j => TagMap[t][i] # TagMap[t][j]

----------------------------------------------------------------------------
(* File enumeration: collectOrgFiles and walkDirectoryConcurrent *)

\* strings.HasPrefix and strings.TrimPrefix
HasPrefix(s, prefix) ==
    /\ Len(s) >= Len(prefix)
    /\ SubSeq(s, 1, Len(prefix)) = prefix

TrimPrefix(s, prefix) ==
    IF HasPrefix(s, prefix) THEN SubSeq(s, Len(prefix) + 1, Len(s)) ELSE s

\* filepath.Join of the components of a path
RECURSIVE Join(_)
Join(p) == IF Len(p) = 1 THEN p[1] ELSE Join(Dir(p)) \o "/" \o p[Len(p)]

\* the absolute root of the site, "/home/site"
RootPath == <<"", "home", "site">>

\* everything a tree may hold below the root: .org files, files with other
\* names, directories, and a directory whose own name ends in .org; in the
\* lexical order in which os.ReadDir and filepath.WalkDir report entries
UniverseSeq ==
    << [path |-> <<"a.org">>, dir |-> FALSE],
       [path |-> <<"borg">>, dir |-> FALSE],
       [path |-> <<"d.org">>, dir |-> TRUE],
       [path |-> <<"d.org", "e.org">>, dir |-> FALSE],
       [path |-> <<"n.txt">>, dir |-> FALSE],
       [path |-> <<"sub">>, dir |-> TRUE],
       [path |-> <<"sub", "b.org">>, dir |-> FALSE],
       [path |-> <<"sub", "deep">>, dir |-> TRUE],
       [path |-> <<"sub", "deep", "c.org">>, dir |-> FALSE],
       [path |-> <<"sub", "m.txt">>, dir |-> FALSE] >>

Universe == Range(UniverseSeq)

\* the entries of a set in that order
InOrder(S) == SelectSeq(UniverseSeq, LAMBDA n : n \in S)

\* the directory trees: every entry lies in a directory of the tree
Trees ==
    {t \in SUBSET Universe :
        \A n \in t : Len(n.path) > 1 => [path |-> Dir(n.path), dir |-> TRUE] \in t}

\* the path WalkDir and ReadDir report for an entry
FullPath(n) == Join(RootPath \o n.path)

\* the entries filepath.WalkDir(dir) visits: dir itself and all below it
WalkDirOf(t, d) ==
    InOrder({n \in t : /\ Len(n.path) >= Len(d.path)
                       /\ SubSeq(n.path, 1, Len(d.path)) = d.path})

\* the test of the walk callbacks with the directory test dropped
HasOrgSuffix(n) == HasSuffix(FullPath(n), ".org")

\* !d.IsDir() && strings.HasSuffix(path, ".org")
IsOrgFile(n) == ~n.dir /\ HasSuffix(FullPath(n), ".org")

\* relPath of the walk callbacks
relPath(path, root) ==
    LET t == TrimPrefix(path, root \o "/")
    IN IF t = path THEN TrimPrefix(path, root) ELSE t

\* one more FileInfo with this Path
AddPath(b, k) == MapStore(b, k, IF k \in DOMAIN b THEN b[k] + 1 ELSE 1)

\* collectOrgFiles(root): WalkDir visits every entry once and appends the
\* FileInfo of those that pass the test
collectOrgFilesOf(t, root) ==
    LET hits == {n \in t : IsOrgFile(n)}
        paths == {relPath(FullPath(n), Join(root)) : n \in hits}
    IN [p \in paths |->
            Cardinality({n \in hits : relPath(FullPath(n), Join(root)) = p})]

EnumInit ==
    /\ BuildInit
    /\ LinkIdle
    /\ WatchIdle
    /\ CallIdle
    /\ MainIdle
    /\ ServerIdle
    /\ LookupIdle
    /\ AggIdle
    /\ tree \in Trees
    /\ nwalkers \in 1..MaxWorkers
    /\ wkpc = "entries"
    /\ entriesLeft = InOrder({n \in tree : Len(n.path) = 1})
    /\ dirChan = <<>>
    /\ wstate = [w \in 1..nwalkers |-> "idle"]
    /\ wleft = [w \in 1..nwalkers |-> <<>>]
    /\ sentFiles = <<>>
    /\ collected = [called |-> FALSE, files |-> <<>>]

\* collectOrgFiles(ctx.Root)
CallCollectOrgFiles ==
    /\ ~collected.called
    /\ collected' = [called |-> TRUE, files |-> collectOrgFilesOf(tree, RootPath)]
    /\ UNCHANGED <<tree, nwalkers, wkpc, entriesLeft, dirChan, wstate, wleft,
                   sentFiles>>
    /\ UNCHANGED nonWalkVars

\* one iteration of the loop over os.ReadDir(root): a directory goes to
\* dirChan (the send blocks while the channel is full), a file whose path
\* ends in .org goes to state.fileChan under its own name
RootEntry ==
    /\ wkpc = "entries"
    /\ entriesLeft # <<>>
    /\ LET n == Head(entriesLeft)
       IN IF n.dir
          THEN /\ Len(dirChan) < nwalkers * 2
               /\ dirChan' = Append(dirChan, n)
               /\ UNCHANGED sentFiles
          ELSE /\ sentFiles' = IF HasSuffix(FullPath(n), ".org")
                               THEN AddPath(sentFiles, n.path[Len(n.path)])
                               ELSE sentFiles
               /\ UNCHANGED dirChan
    /\ entriesLeft' = Tail(entriesLeft)
    /\ UNCHANGED <<tree, nwalkers, wkpc, wstate, wleft, collected>>
    /\ UNCHANGED nonWalkVars

\* close(dirChan) after the last entry
CloseDirChan ==
    /\ wkpc = "entries"
    /\ entriesLeft = <<>>
    /\ wkpc' = "wait"
    /\ UNCHANGED <<tree, nwalkers, entriesLeft, dirChan, wstate, wleft,
                   sentFiles, collected>>
    /\ UNCHANGED nonWalkVars

\* for dir := range dirChan: a worker takes the next directory
WorkerReceives(w) ==
    /\ wstate[w] = "idle"
    /\ dirChan # <<>>
    /\ wstate' = [wstate EXCEPT ![w] = "walking"]
    /\ wleft' = [wleft EXCEPT ![w] = WalkDirOf(tree, Head(dirChan))]
    /\ dirChan' = Tail(dirChan)
    /\ UNCHANGED <<tree, nwalkers, wkpc, entriesLeft, sentFiles, collected>>
    /\ UNCHANGED nonWalkVars

\* walkDirectory: the callback of WalkDir on one entry
WorkerVisits(w) ==
    /\ wstate[w] = "walking"
    /\ wleft[w] # <<>>
    /\ LET n == Head(wleft[w])
       IN sentFiles' = IF IsOrgFile(n)
                       THEN AddPath(sentFiles, relPath(FullPath(n), Join(RootPath)))
                       ELSE sentFiles
    /\ wleft' = [wleft EXCEPT ![w] = Tail(@)]
    /\ UNCHANGED <<tree, nwalkers, wkpc, entriesLeft, dirChan, wstate, collected>>
    /\ UNCHANGED nonWalkVars

\* walkDirectory returns and the worker turns to dirChan again
WorkerWalked(w) ==
    /\ wstate[w] = "walking"
    /\ wleft[w] = <<>>
    /\ wstate' = [wstate EXCEPT ![w] = "idle"]
    /\ UNCHANGED <<tree, nwalkers, wkpc, entriesLeft, dirChan, wleft,
                   sentFiles, collected>>
    /\ UNCHANGED nonWalkVars

\* the range over the closed, drained dirChan ends: wg.Done()
WorkerExits(w) ==
    /\ wstate[w] = "idle"
    /\ wkpc = "wait"
    /\ dirChan = <<>>
    /\ wstate' = [wstate EXCEPT ![w] = "exited"]
    /\ UNCHANGED <<tree, nwalkers, wkpc, entriesLeft, dirChan, wleft,
                   sentFiles, collected>>
    /\ UNCHANGED nonWalkVars

\* wg.Wait() returns
WalkConcurrentReturns ==
    /\ wkpc = "wait"
    /\ \A w \in DOMAIN wstate : wstate[w] = "exited"
    /\ wkpc' = "done"
    /\ UNCHANGED <<tree, nwalkers, entriesLeft, dirChan, wstate, wleft,
                   sentFiles, collected>>
    /\ UNCHANGED nonWalkVars

EnumNext ==
    \/ CallCollectOrgFiles
    \/ RootEntry
    \/ CloseDirChan
    \/ \E w \in DOMAIN wstate : WorkerReceives(w)
    \/ \E w \in DOMAIN wstate : WorkerVisits(w)
    \/ \E w \in DOMAIN wstate : WorkerWalked(w)
    \/ \E w \in DOMAIN wstate : WorkerExits(w)
    \/ WalkConcurrentReturns

EnumSpec == EnumInit /\ [][EnumNext]_vars

\* the regular files of the tree whose name ends in .org, each once, under
\* the path from the root to the file
OrgFilesOnce(t) ==
    [p \in {Join(n.path) : n \in {x \in t : ~x.dir /\ HasSuffix(x.path[Len(x.path)], ".org")}}
        |-> 1]

----------------------------------------------------------------------------
(* Title and tags of a document: generator/phase1.go, generator/utils.go *)

\* the lines of a document that matter to the extractors: a "#+title:"
\* directive with its value, a level-one heading with its text and tags, or
\* any other line
TitleLines == {[kind |-> "title", text |-> v, tags |-> <<>>] : v \in {"", "T"}}

HeadingLines ==
    {[kind |-> "heading", text |-> x, tags |-> g] :
        x \in {"H", "G"}, g \in {<<>>, <<"t1">>, <<"t2">>}}

OtherLines == {[kind |-> "text", text |-> "body", tags |-> <<>>]}

LineSeqs(n) == UNION {[1..k -> TitleLines \cup HeadingLines \cup OtherLines] : k \in 0..n}

\* the documents: up to MaxLines lines, at most one title directive
MetaDocs ==
    {d \in LineSeqs(MaxLines) :
        Cardinality({i \in DOMAIN d : d[i].kind = "title"}) <= 1}

\* the org.Headline nodes of the parsed document
Headlines(d) == SelectSeq(d, LAMBDA l : l.kind = "heading")

\* doc.Get("TITLE"): the value of the title directive, "" without one
DocGetTitle(d) ==
    LET ts == SelectSeq(d, LAMBDA l : l.kind = "title")
    IN IF ts = <<>> THEN "" ELSE ts[1].text

\* extractTags: the first heading line with " :" in it ends the loop, a
\* heading line without it is passed over
RECURSIVE extractTags(_)
extractTags(lines) ==
    IF lines = <<>> THEN <<>>
    ELSE IF Head(lines).kind = "heading"
         THEN IF Head(lines).tags = <<>>
              THEN extractTags(Tail(lines))
              ELSE Head(lines).tags
         ELSE extractTags(Tail(lines))

\* extractTitle: the first line that is a non-empty title directive or a
\* heading with text
RECURSIVE extractTitle(_)
extractTitle(lines) ==
    IF lines = <<>> THEN ""
    ELSE IF Head(lines).kind \in {"title", "heading"} /\ Head(lines).text # ""
         THEN Head(lines).text
         ELSE extractTitle(Tail(lines))

\* the first headline whose title text is not empty
RECURSIVE FirstHeadlineTitle(_)
FirstHeadlineTitle(headlines) ==
    IF headlines = <<>> THEN ""
    ELSE IF Head(headlines).text # "" THEN Head(headlines).text
    ELSE FirstHeadlineTitle(Tail(headlines))

\* extractTitleFromAST
extractTitleFromAST(d) ==
    IF DocGetTitle(d) # "" THEN DocGetTitle(d) ELSE FirstHeadlineTitle(Headlines(d))

MetaInit ==
    /\ BuildInit
    /\ LinkIdle
    /\ WatchIdle
    /\ MainIdle
    /\ OtherIdle
    /\ cpc = "call"
    /\ arg \in MetaDocs
    /\ ret = <<>>

CallExtractTags ==
    /\ cpc = "call"
    /\ ret' = [fn |-> "extractTags", val |-> extractTags(arg)]
    /\ cpc' = "done"
    /\ UNCHANGED <<arg, nonCallVars>>

CallExtractTagsFromAST ==
    /\ cpc = "call"
    /\ ret' = [fn |-> "extractTagsFromAST", val |-> extractTagsFromAST(Headlines(arg))]
    /\ cpc' = "done"
    /\ UNCHANGED <<arg, nonCallVars>>

CallExtractTitle ==
    /\ cpc = "call"
    /\ ret' = [fn |-> "extractTitle", val |-> extractTitle(arg)]
    /\ cpc' = "done"
    /\ UNCHANGED <<arg, nonCallVars>>

CallExtractTitleFromAST ==
    /\ cpc = "call"
    /\ ret' = [fn |-> "extractTitleFromAST", val |-> extractTitleFromAST(arg)]
    /\ cpc' = "done"
    /\ UNCHANGED <<arg, nonCallVars>>

MetaNext ==
    \/ CallExtractTags
    \/ CallExtractTagsFromAST
    \/ CallExtractTitle
    \/ CallExtractTitleFromAST

MetaSpec == MetaInit /\ [][MetaNext]_vars

\* C27: the tags of a document are exactly the tags of its first heading,
\* and empty when the first heading has none, whatever later headings carry
C27_FirstHeadingTagsOnly ==
    (cpc = "done" /\ ret.fn \in {"extractTags", "extractTagsFromAST"}) =>
        ret.val = (IF Headlines(arg) = <<>> THEN <<>> ELSE Headlines(arg)[1].tags)

\* C28: the title is the value of the non-empty title directive wherever it
\* stands in the document, else the text of the first heading, else empty
C28_TitleDirectiveWins ==
    (cpc = "done" /\ ret.fn \in {"extractTitle", "extractTitleFromAST"}) =>
        ret.val = (IF DocGetTitle(arg) # "" THEN DocGetTitle(arg)
                   ELSE IF Headlines(arg) = <<>> THEN ""
                   ELSE Headlines(arg)[1].text)

----------------------------------------------------------------------------
(* Preview text: extractPreview and extractPreviewFromAST *)

\* the maxLen processFile passes to the preview extractors
PreviewMaxLen == 500

\* bytes of UTF-8 text: 'a', and the two bytes of a two-byte character
ByteA == 97
ByteLead == 195
ByteCont == 169

Ellipsis == <<46, 46, 46>>

\* n times the byte b
Rep(b, n) == [i \in 1..n |-> b]

\* the cleaned, whitespace-normalised text of a document: n ASCII characters
\* with k two-byte characters standing after the first p of them
PreviewText(n, p, k) ==
    LET q == IF p < n THEN p ELSE n
    IN Rep(ByteA, q)
       \o [i \in 1..(2 * k) |-> IF i % 2 = 1 THEN ByteLead ELSE ByteCont]
       \o Rep(ByteA, n - q)

PreviewTexts ==
    {PreviewText(n, p, k) :
        n \in {0, 1} \cup ((PreviewMaxLen - 2)..(PreviewMaxLen + MaxOver)),
        p \in (PreviewMaxLen - 3)..PreviewMaxLen,
        k \in 0..3}

\* the end of both extractors: a text longer than maxLen bytes is cut at
\* maxLen, the cut moved back over bytes above 127, and "..." appended
RECURSIVE CutAt(_, _)
CutAt(text, cutAt) ==
    IF cutAt > 0 /\ text[cutAt] > 127 THEN CutAt(text, cutAt - 1) ELSE cutAt

TruncatePreview(text, maxLen) ==
    IF Len(text) > maxLen
    THEN SubSeq(text, 1, CutAt(text, maxLen)) \o Ellipsis
    ELSE text

\* the characters of a UTF-8 text: its bytes that do not continue a character
CharLen(text) == Cardinality({i \in DOMAIN text : text[i] < 128 \/ text[i] >= 192})

PreviewInit ==
    /\ BuildInit
    /\ LinkIdle
    /\ WatchIdle
    /\ MainIdle
    /\ OtherIdle
    /\ cpc = "call"
    /\ arg \in PreviewTexts
    /\ ret = <<>>

\* extractPreview(data, 500) on a document whose cleaned body is arg
CallExtractPreview ==
    /\ cpc = "call"
    /\ ret' = [fn |-> "extractPreview", val |-> TruncatePreview(arg, PreviewMaxLen)]
    /\ cpc' = "done"
    /\ UNCHANGED <<arg, nonCallVars>>

\* extractPreviewFromAST(doc, 500) on a document whose collected text is arg
CallExtractPreviewFromAST ==
    /\ cpc = "call"
    /\ ret' = [fn |-> "extractPreviewFromAST",
               val |-> TruncatePreview(arg, PreviewMaxLen)]
    /\ cpc' = "done"
    /\ UNCHANGED <<arg, nonCallVars>>

PreviewNext == CallExtractPreview \/ CallExtractPreviewFromAST

PreviewSpec == PreviewInit /\ [][PreviewNext]_vars

\* C30: the preview stored for a document has at most 500 characters
C30_PreviewAtMost500 ==
    (cpc = "done" /\ ret.fn \in {"extractPreview", "extractPreviewFromAST"}) =>
        CharLen(ret.val) <= PreviewMaxLen

----------------------------------------------------------------------------
(* The counters GenerateHtmlPages returns *)

\* C32: when every rendering goroutine has returned, FilesGenerated is the
\* number of page outputs written by this call, and FilesGenerated +
\* FilesSkipped + Errors is the number of documents other than the sentinel
C32_CountsMatchOutputs ==
    (pc = "render" /\ snap.taken /\ \A d \in Docs : rstatus[d] # "pending") =>
        /\ filesGenerated = Cardinality({d \in Docs : rstatus[d] = "generated"})
        /\ filesGenerated + ZeroResult.FilesSkipped + errors
               = Cardinality({d \in Docs : ~IsSentinel(Files[d])})

----------------------------------------------------------------------------
(* SetupTemplates and the template time of successive builds *)

\* the templates directory of the site: whether it exists, and the
\* modification time of its base-template.html
TemplateDirs == [useFS : BOOLEAN, baseModTime : 0..MaxTime]

\* the time.Time SetupTemplates returns: info.ModTime() of the base template
\* of a custom directory, time.Now() for the embedded templates
SetupTemplates(dir, now) == IF dir.useFS THEN dir.baseModTime ELSE now

\* builds of one unchanged tree with unchanged templates, time passing
TmplInit ==
    /\ BuildInit
    /\ LinkIdle
    /\ WatchIdle
    /\ MainIdle
    /\ OtherIdle
    /\ cpc = "done"
    /\ arg \in TemplateDirs
    /\ ret = <<>>

TmplNext ==
    \/ \E force \in BOOLEAN : StartBuild(force, SetupTemplates(arg, clock))
    \/ \E d \in Docs : ProcessFile(d)
    \/ \E d \in Docs : TagLoadOrStore(d)
    \/ \E d \in Docs : TagStore(d)
    \/ FindReturn
    \/ RangeUuidMap
    \/ \E d \in Docs : GenerateHTML(d)
    \/ RenderReturn
    \/ Tick

TmplSpec == TmplInit /\ [][TmplNext]_vars

\* C35: with unchanged templates every build gets the template time of the
\* build before it, and a build that is not forced writes no page of the
\* unchanged tree again
C35_TemplateTimeStable ==
    (builds > 0 /\ pc # "idle") =>
        /\ ctx.TmplModTime = prev.TmplModTime
        /\ ~ctx.ForceRebuild => \A d \in Docs : rstatus[d] # "generated"

----------------------------------------------------------------------------
(* filesToSpans and the discovery workers of GetAndProcessOrgFiles *)

\* the end of a span when the last span is not made to take the rest
SpanEndNoLast(i, spanSize, spansSent, numSpans, len) ==
    IF i + spanSize > len THEN len ELSE i + spanSize

\* end := i + spanSize; if spansSent == numSpans-1 || end > len(files)
\* { end = len(files) }
SpanEnd(i, spanSize, spansSent, numSpans, len) ==
    IF spansSent = numSpans - 1 \/ i + spanSize > len THEN len ELSE i + spanSize

\* if numSpans > len(files) { numSpans = len(files) }
ClampSpans(numSpans, len) == IF numSpans > len THEN len ELSE numSpans

\* filesToSpans(files, numSpans) is called on len files; ret holds the loop
\* variables, the spans yielded (files[lo:hi]), how far the goroutine of each
\* span has come, and how often each Files slot was written
SpanInit ==
    /\ BuildInit
    /\ LinkIdle
    /\ WatchIdle
    /\ MainIdle
    /\ OtherIdle
    /\ cpc = "call"
    /\ arg \in [len : 0..MaxFiles, numSpans : 1..MaxSpans]
    /\ ret = [i |-> 0, spansSent |-> 0, spanSize |-> 0, numSpans |-> 0,
              spans |-> <<>>, next |-> <<>>,
              writes |-> [k \in 0..(arg.len - 1) |-> 0]]

\* the iterator starts: the empty list yields nothing, else numSpans is
\* clamped and spanSize computed
SpansStart ==
    /\ cpc = "call"
    /\ IF arg.len = 0
       THEN /\ cpc' = "wait"
            /\ UNCHANGED ret
       ELSE /\ cpc' = "loop"
            /\ ret' = [ret EXCEPT
                          !.numSpans = ClampSpans(arg.numSpans, arg.len),
                          !.spanSize = arg.len \div ClampSpans(arg.numSpans, arg.len)]
    /\ UNCHANGED <<arg, nonCallVars>>

\* one iteration: yield(files[i:end]); the body of the range loop starts a
\* goroutine that runs processSpan on the chunk
SpansYield ==
    /\ cpc = "loop"
    /\ ret.i < arg.len
    /\ LET end == SpanEnd(ret.i, ret.spanSize, ret.spansSent, ret.numSpans, arg.len)
       IN ret' = [ret EXCEPT !.spans = Append(@, <<ret.i, end>>),
                             !.next = Append(@, ret.i),
                             !.spansSent = @ + 1,
                             !.i = end]
    /\ UNCHANGED <<cpc, arg, nonCallVars>>

\* i reached len(files): the iterator returns and the caller waits
SpansEnd ==
    /\ cpc = "loop"
    /\ ret.i >= arg.len
    /\ cpc' = "wait"
    /\ UNCHANGED <<arg, ret, nonCallVars>>

\* processSpan of span k handles its next file and writes chunk[i] = *fi
ProcessSpanFile(k) ==
    /\ k \in DOMAIN ret.spans
    /\ ret.next[k] < ret.spans[k][2]
    /\ ret' = [ret EXCEPT !.writes[ret.next[k]] = @ + 1,
                          !.next[k] = @ + 1]
    /\ UNCHANGED <<cpc, arg, nonCallVars>>

\* wg.Wait() returns
SpansWaitReturns ==
    /\ cpc = "wait"
    /\ \A k \in DOMAIN ret.spans : ret.next[k] = ret.spans[k][2]
    /\ cpc' = "done"
    /\ UNCHANGED <<arg, ret, nonCallVars>>

SpanNext ==
    \/ SpansStart
    \/ SpansYield
    \/ SpansEnd
    \/ \E k \in 1..MaxFiles : ProcessSpanFile(k)
    \/ SpansWaitReturns

SpanSpec == SpanInit /\ [][SpanNext]_vars

\* C37: for a non-empty list the spans yielded are at most n, non-empty,
\* contiguous from the start of the list and disjoint; once the iterator has
\* returned they cover the list; no Files slot is written twice, and after
\* wg.Wait() every slot was written once
C37_SpansPartitionFiles ==
    arg.len > 0 =>
        /\ Len(ret.spans) <= arg.numSpans
        /\ \A k \in DOMAIN ret.spans :
               /\ ret.spans[k][1] < ret.spans[k][2]
               /\ ret.spans[k][2] <= arg.len
               /\ ret.spans[k][1] = (IF k = 1 THEN 0 ELSE ret.spans[k - 1][2])
        /\ cpc \in {"wait", "done"} =>
               /\ ret.spans # <<>>
               /\ ret.spans[Len(ret.spans)][2] = arg.len
        /\ \A x \in DOMAIN ret.writes : ret.writes[x] <= 1
        /\ cpc = "done" => \A x \in DOMAIN ret.writes : ret.writes[x] = 1

\* five files were split into three spans, the last one longer than the
\* others, and all workers have finished
C37_Witness ==
    /\ cpc = "done"
    /\ arg.len = 5
    /\ arg.numSpans = 3
    /\ ret.spans = <<(<<0, 1>>), (<<1, 2>>), (<<2, 5>>)>>

----------------------------------------------------------------------------
(* extractUUIDs of generator/utils.go: the scanner over the text of a file *)

\* ":ID:" and ":id:"
UpperMarker == <<58, 73, 68, 58>>
LowerMarker == <<58, 105, 100, 58>>

\* 36 bytes that are no identifier: an identifier with a 'g' in it
BadId == [AllFs EXCEPT ![1] = 103]

\* a line of a property drawer: ":ID: 00000000-0000-0000-0000-000000000000\n"
DrawerLine == UpperMarker \o <<32>> \o AllZeros \o <<10>>

\* what the texts are made of: the markers, a space, a line break, two
\* identifiers, the string that is none, and a whole drawer line
Pieces ==
    {UpperMarker, LowerMarker, <<32>>, <<10>>, AllZeros, MixedCase, BadId,
     DrawerLine}

RECURSIVE Flatten(_)
Flatten(ps) == IF ps = <<>> THEN <<>> ELSE Head(ps) \o Flatten(Tail(ps))

ScanTexts == {Flatten(ps) : ps \in UNION {[1..k -> Pieces] : k \in 0..MaxPieces}}

\* whether t stands at offset i of s
MatchAt(s, i, t) == i + Len(t) <= Len(s) /\ SubSeq(s, i + 1, i + Len(t)) = t

\* strings.Index(s[i:], t): the offset in s[i:] of the first t, -1 without
IndexFrom(s, i, t) ==
    LET hits == {j \in i..Len(s) : MatchAt(s, j, t)}
    IN IF hits = {} THEN -1 ELSE (CHOOSE j \in hits : \A x \in hits : j <= x) - i

\* for idx < len(s) && s[idx] == ' ' { idx++ }
RECURSIVE SkipSpaces(_, _)
SkipSpaces(s, idx) ==
    IF idx < Len(s) /\ s[idx + 1] = 32 THEN SkipSpaces(s, idx + 1) ELSE idx

ScanInit ==
    /\ BuildInit
    /\ LinkIdle
    /\ WatchIdle
    /\ MainIdle
    /\ OtherIdle
    /\ cpc = "call"
    /\ arg \in ScanTexts
    /\ ret = [i |-> 0, uuids |-> <<>>]

\* one iteration of the loop of extractUUIDs that finds a marker
ScanStep ==
    /\ cpc = "call"
    /\ ret.i < Len(arg)
    /\ LET upperIdx == IndexFrom(arg, ret.i, UpperMarker)
           lowerIdx == IndexFrom(arg, ret.i, LowerMarker)
           markerIdx == IF upperIdx # -1 /\ (lowerIdx = -1 \/ upperIdx < lowerIdx)
                        THEN upperIdx
                        ELSE lowerIdx
           idx == SkipSpaces(arg, markerIdx + ret.i + 4)
       IN /\ markerIdx # -1
          /\ ret' = IF /\ idx + UuidLen <= Len(arg)
                       /\ isValidUUID(SubSeq(arg, idx + 1, idx + UuidLen))
                    THEN [i |-> idx + UuidLen,
                          uuids |-> Append(ret.uuids, SubSeq(arg, idx + 1, idx + UuidLen))]
                    ELSE [ret EXCEPT !.i = idx + 1]
    /\ UNCHANGED <<cpc, arg, nonCallVars>>

\* the loop ends, at the end of the text or for want of a marker (break)
ScanReturns ==
    /\ cpc = "call"
    /\ \/ ret.i >= Len(arg)
       \/ /\ IndexFrom(arg, ret.i, UpperMarker) = -1
          /\ IndexFrom(arg, ret.i, LowerMarker) = -1
    /\ cpc' = "done"
    /\ UNCHANGED <<arg, ret, nonCallVars>>

ScanNext == ScanStep \/ ScanReturns

ScanSpec == ScanInit /\ [][ScanNext]_vars

\* the offsets of s where a marker stands that spaces and an identifier follow
MarkedAt(s) ==
    {j \in 0..Len(s) :
        /\ MatchAt(s, j, UpperMarker) \/ MatchAt(s, j, LowerMarker)
        /\ SkipSpaces(s, j + 4) + UuidLen <= Len(s)
        /\ isValidUUID(SubSeq(s, SkipSpaces(s, j + 4) + 1, SkipSpaces(s, j + 4) + UuidLen))}

\* the identifiers at those offsets, in the order of the offsets
RECURSIVE MarkedIds(_, _)
MarkedIds(s, J) ==
    IF J = {} THEN <<>>
    ELSE LET j == CHOOSE x \in J : \A y \in J : x <= y
         IN <<SubSeq(s, SkipSpaces(s, j + 4) + 1, SkipSpaces(s, j + 4) + UuidLen)>>
                \o MarkedIds(s, J \ {j})

\* C36: the identifier list of a document holds no identifier twice and no
\* value that fails isValidUUID
C36_IdentifiersDeduplicated ==
    cpc = "done" =>
        /\ \A x, y \in DOMAIN ret.uuids : x # y => ret.uuids[x] # ret.uuids[y]
        /\ \A x \in DOMAIN ret.uuids : isValidUUID(ret.uuids[x])

\* C38: extractUUIDs returns, in order, the identifier after every marker
\* that spaces and a valid identifier follow, and nothing else
C38_ScannerFindsEveryMarked ==
    cpc = "done" => ret.uuids = MarkedIds(arg, MarkedAt(arg))

----------------------------------------------------------------------------
(* The output paths of one build: pages, tag pages, index and static files *)

\* ctx.DestDir
DestDir == "public"

\* the documents, tags and files of the static directory a tree may hold
PathDocs == {<<"a.org">>, <<"index.org">>, <<"tag-emacs.org">>, <<"sub", "index.org">>}
PathTags == {"emacs"}
PathStatics == {"style.css", "a.html"}

\* filepath.Join(publicDir, strings.TrimSuffix(fi.Path, ".org") + ".html")
PageOutputPath(d) == DestDir \o "/" \o TrimSuffix(Join(d), ".org") \o ".html"

\* filepath.Join(publicDir, "tag-"+tag+".html")
TagOutputPath(t) == DestDir \o "/" \o "tag-" \o t \o ".html"

\* filepath.Join(publicDir, "index.html")
IndexOutputPath == DestDir \o "/" \o "index.html"

\* filepath.Join(publicDir, entry.Name())
StaticOutputPath(f) == DestDir \o "/" \o f

\* a build over a tree: arg is the tree, ret the phase, what is still to be
\* written in it, and for every path the writers that have written to it
PathInit ==
    /\ BuildInit
    /\ LinkIdle
    /\ WatchIdle
    /\ MainIdle
    /\ OtherIdle
    /\ cpc = "call"
    /\ arg \in [docs : SUBSET PathDocs, tags : SUBSET PathTags,
                statics : SUBSET PathStatics]
    /\ ret = [phase |-> "pages", todo |-> arg.docs, writers |-> <<>>]

\* the writer w writes to path p
WrittenBy(writers, p, w) ==
    MapStore(writers, p, IF p \in DOMAIN writers THEN writers[p] \cup {w} ELSE {w})

\* generateHTML of one document: os.WriteFile(outputPath, ...)
WritePage(d) ==
    /\ cpc = "call"
    /\ ret.phase = "pages"
    /\ d \in ret.todo
    /\ ret' = [ret EXCEPT !.todo = @ \ {d},
                          !.writers = WrittenBy(@, PageOutputPath(d), <<"page", d>>)]
    /\ UNCHANGED <<cpc, arg, nonCallVars>>

\* GenerateHtmlPages returns and GenerateTagPages ranges over TagMap
PagesDone ==
    /\ cpc = "call"
    /\ ret.phase = "pages"
    /\ ret.todo = {}
    /\ ret' = [ret EXCEPT !.phase = "tags", !.todo = arg.tags]
    /\ UNCHANGED <<cpc, arg, nonCallVars>>

\* the goroutine of one tag writes its page
WriteTagPage(t) ==
    /\ cpc = "call"
    /\ ret.phase = "tags"
    /\ t \in ret.todo
    /\ ret' = [ret EXCEPT !.todo = @ \ {t},
                          !.writers = WrittenBy(@, TagOutputPath(t), <<"tag", t>>)]
    /\ UNCHANGED <<cpc, arg, nonCallVars>>

\* GenerateTagPages returns; GenerateIndexPage writes index.html
WriteIndexPage ==
    /\ cpc = "call"
    /\ ret.phase = "tags"
    /\ ret.todo = {}
    /\ ret' = [ret EXCEPT !.phase = "static", !.todo = arg.statics,
                          !.writers = WrittenBy(@, IndexOutputPath, <<"index">>)]
    /\ UNCHANGED <<cpc, arg, nonCallVars>>

\* CopyStaticFiles: copyFile(srcPath, dstPath) for one entry
CopyStaticFile(f) ==
    /\ cpc = "call"
    /\ ret.phase = "static"
    /\ f \in ret.todo
    /\ ret' = [ret EXCEPT !.todo = @ \ {f},
                          !.writers = WrittenBy(@, StaticOutputPath(f), <<"static", f>>)]
    /\ UNCHANGED <<cpc, arg, nonCallVars>>

\* CopyStaticFiles returns: the build is over
PathsDone ==
    /\ cpc = "call"
    /\ ret.phase = "static"
    /\ ret.todo = {}
    /\ cpc' = "done"
    /\ UNCHANGED <<arg, ret, nonCallVars>>

PathNext ==
    \/ \E d \in PathDocs : WritePage(d)
    \/ PagesDone
    \/ \E t \in PathTags : WriteTagPage(t)
    \/ WriteIndexPage
    \/ \E f \in PathStatics : CopyStaticFile(f)
    \/ PathsDone

PathSpec == PathInit /\ [][PathNext]_vars

\* C33: within one build no output path has two writers
C33_OutputPathsDistinct ==
    \A p \in DOMAIN ret.writers : Cardinality(ret.writers[p]) <= 1

----------------------------------------------------------------------------
(* One build of a tree in which every identifier has one declaring document *)

\* the headings of d when document e declares, on a further heading, the
\* identifier u9 that a.org links to; <<>> for e leaves u9 undeclared
UniqueHeadings(d, e) ==
    IF d = e
    THEN Append(InitHeadings(d), [tags |-> <<>>, ids |-> <<"u9">>])
    ELSE InitHeadings(d)

DetInit ==
    /\ \E e \in {DocA, DocB, DocC, <<>>} :
           src = [d \in Docs |->
                     [state |-> "ok", mtime |-> 0,
                      headings |-> UniqueHeadings(d, e),
                      links |-> [i \in 1..Len(DocLinks(d)) |->
                                    AuthoredLink(DocLinks(d)[i])]]]
    /\ clock = 0
    /\ out = [d \in Docs |-> [exists |-> FALSE, mtime |-> 0, links |-> <<>>]]
    /\ pc = "idle"
    /\ ctx = [ForceRebuild |-> FALSE, TmplModTime |-> 0]
    /\ Files = [d \in Docs |-> [Path |-> d, ModTime |-> 0, Tags |-> <<>>, UUIDs |-> <<>>]]
    /\ UuidMap = <<>>
    /\ TagMap = <<>>
    /\ wpc = [d \in Docs |-> "done"]
    /\ wtag = [d \in Docs |-> 1]
    /\ existing = [d \in Docs |-> <<>>]
    /\ filesWithUUIDs = 0
    /\ snap = [taken |-> FALSE, map |-> <<>>]
    /\ rstatus = [d \in Docs |-> "pending"]
    /\ filesGenerated = 0
    /\ errors = 0
    /\ result = ZeroResult
    /\ builds = 0
    /\ edits = 0
    /\ dirty = FALSE
    /\ prev = [ForceRebuild |-> FALSE, TmplModTime |-> 0]
    /\ stored = {}
    /\ lateRead = FALSE
    /\ LinkIdle
    /\ WatchIdle
    /\ CallIdle
    /\ MainIdle
    /\ OtherIdle

DetSpec == DetInit /\ [][FaultNext]_vars

\* the identifiers the source of d declares
DeclaredIn(d) == Range(extractUUIDsFromAST(src[d].headings))

\* the index the sources determine: every declared identifier under its one
\* declaring document
SourceIndex ==
    [u \in UNION {DeclaredIn(d) : d \in Docs} |->
        IndexValue(CHOOSE d \in Docs : u \in DeclaredIn(d))]

\* C31: whatever the order of the discovery and rendering goroutines, the
\* index that rendering reads is the one the sources determine, and every page
\* written holds the links of its own source rewritten with that index
C31_OutputsIndependentOfOrder ==
    /\ pc = "render" => UuidMap = SourceIndex
    /\ \A d \in Docs :
           (out[d].exists /\ (pc = "idle" \/ rstatus[d] = "generated")) =>
               out[d].links = replaceUUIDLinks(src[d].links, SourceIndex, d)

\* a build has ended in which sub/deep/c.org declared u9 and every document
\* but the sentinel got its page
C31_Witness ==
    /\ pc = "idle"
    /\ builds = 1
    /\ "u9" \in DeclaredIn(DocC)
    /\ \A d \in Docs \ {Preamble} : out[d].exists

====
